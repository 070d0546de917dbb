# LVQR in TLA+

LVQR is a live video server written in Rust. Publishers send media over RTMP,
WHIP, SRT, RTSP or WebSocket; the server turns it into fragments and hands them
to HLS, DASH, WHEP, RTSP, MoQ, the archive, transcoders and in-process agents;
viewers may relay to one another in a mesh; several servers form a cluster or
are linked to other clusters.

This directory models the parts of the server whose correctness depends on the
order in which tasks, threads, messages and nodes take their steps. Paths below
are relative to `crates/` unless they start with `docs/`.

## 1. The system

### Inventory

| Part | Source | State it keeps | Operations | Hard behaviour | Correct when |
|---|---|---|---|---|---|
| Fragment fan-out | `lvqr-fragment/src/broadcaster.rs` | ring of fragments, metadata, counters, one cursor per subscriber | emit, set_init_segment, subscribe, next_fragment, clone, drop | a slow subscriber is overtaken; end of stream is a reference count reaching zero | loss is exact and forced; no early and no missing end |
| Registry | `lvqr-fragment/src/registry.rs`, `lvqr-ingest/src/dispatch.rs` | map of (broadcast, track) to broadcaster, two callback lists | get_or_create, remove, on_entry_created, on_entry_removed | check, lock, check again; callbacks run outside the locks and re-enter | one broadcaster per entry; each callback exactly once; drains subscribe before media flows |
| Agent runner | `lvqr-agent/src/runner.rs` | factories, task map, counters | creation callback, add_agent, remove_agent, drive | a source created while an agent is being added | one drain per agent and source, no new source forgotten |
| Transcoding | `lvqr-transcode/src` | ladder, task map, a worker thread with a bounded queue per rendition | add and remove rendition, drive, push, end of stream, join | outputs are broadcasts of the same registry; the worker outlives an aborted drain | no rendition feeds on another; every accepted input comes out; workers end |
| RTMP ingest | `lvqr-ingest/src/rtmp.rs`, `bridge.rs` | session locals, stream map, live-session map, event bus | session loop, on_publish, on_unpublish, media callbacks, list and kill | everything is keyed by name while sessions are per connection | nothing outlives its publisher; events, map and registry agree |
| SRT and WHIP ingest | `lvqr-srt/src`, `lvqr-whip/src` | connection or session, demuxer, bridge's stream map, inventory | accept, offer, media, terminate, kick | packets lost and cut anywhere; lookups released before the publication they serve | the inventory is true; init first, stop last; no mixture of sections |
| RTSP | `lvqr-rtsp/src` | sessions, drains, report tasks, one bounded channel per connection | ANNOUNCE, SETUP, RECORD, PLAY, TEARDOWN, media | the loop fills the channel it alone empties; requests and media share a byte stream | every drain ends with the connection; media comes out as it was sent |
| Event bus | `lvqr-core/src/events.rs` | bounded broadcast channel | emit, subscribe | a slow subscriber loses events | starts and stops are not applied out of step |
| HLS | `lvqr-hls/src`, `lvqr-cli/src/hls.rs`, `captions.rs` | playlist builder, byte cache, waiters, cue window, map of broadcasts | push, close segment, finalize, blocking reload, delta update, master playlist | the cache is filled after the builder's lock is dropped; the end comes by another channel than the media | what is listed is served; a URI keeps its bytes; a reload is answered, not early |
| DASH | `lvqr-dash/src` | numbered segments, events, wall-clock anchor | push, events, finalize, render | drains of two publications number on one server | numbers without holes; the newest publication is served |
| Archive | `lvqr-archive/src`, `lvqr-cli/src/archive.rs` | files, index, signed asset | record, find_range, finalise and sign | detached blocking writes in any order, crash and restart | a row names a whole file; a range query returns what overlaps it, in order |
| WHEP | `lvqr-whep/src` | caches, sessions, channel per session | offer, terminate, observer calls, poll loop | a session is seeded before it is listed | configuration before the keyframe that needs it |
| WebSocket and recorder | `lvqr-cli/src/ws.rs`, `lvqr-record/src` | relay session, track tasks, recordings | ingest, relay, record | a bounded channel; an event that comes before the tracks | init first; what is live is recorded unless the recorder was too early |
| Mesh | `lvqr-mesh/src`, `lvqr-signal/src` | relay tree in a concurrent map, signalling map | add_peer, remove_peer, reassign_peer, reap, route | each operation is many map accesses; two sessions share an id | parents and children agree within limits, no leaked entry, mail to the right peer |
| Cluster | `lvqr-cluster/src`, `lvqr-cli/src/cluster_claim.rs` | leases, renewers, configuration and members in gossip state | claim, renew, drop, find_owner, set, list | stale copies, late renewals, a tombstone racing an abort, crashes | a live publisher keeps its lease; a former owner expires |
| Federation | `lvqr-cluster/src/federation.rs` | link status, forwarder tasks | run_link, forward_broadcast, shutdown | reconnect with backoff while old forwarders live | the status is true; the delay grows; bounded shutdown |
| Auth, stream keys, reload | `lvqr-auth/src`, `lvqr-cli/src/config_reload.rs` | provider chain, key store, decision caches, swap cells | check, mint, rotate, revoke, reload | two indexes and three swap cells without a common lock | one live token per key; a reload settles |
| Playback gate | `lvqr-cli/src/auth_middleware.rs`, `signed_url.rs`, `lvqr-auth/src/jwks_provider.rs` | secret, key set | decide a request, refresh keys, swap the secret | keys rotate between the look-up and the fetch | a signature decides; a token is checked with one snapshot of keys |
| Admin API | `lvqr-admin/src/routes.rs` | none of its own | post, delete and list routes, log tail, latency | a request takes the locks behind it several times | admins only; answers are true |
| WASM filter | `lvqr-wasm/src` | shared module, watcher, taps | filter, reload, drop | a worker blocked in recv must be released before it is joined | the newest module settles in; shutdown ends |
| Whisper captions | `lvqr-agent-whisper/src` | bounded queue, window | callbacks, worker loop | frames dropped when the queue is full | cues are timed within their speech and reach the track |
| Server assembly | `lvqr-cli/src/lib.rs`, `main.rs`, `handle.rs` | tokens, tasks, listeners | start, shutdown, stop a listener | many steps that can fail, in a fixed order | consumers before publishers; a stop is complete and local |

### How the parts interact

    publisher session --callbacks--> bridge --get_or_create/emit--> registry
                                       |                               |
                               event bus (start, stop)        on_entry_created
                                       |                               |
                          HLS finaliser, recorder,       HLS, DASH, archive, agents,
                          DASH finaliser                 transcoders, cluster claim
                                                         (one drain task each)

The registry is where ingest and egress meet. Ingest looks a broadcaster up and
emits; a creation callback of every egress subscribes and spawns a drain; the
drain ends when the last producer-side handle is dropped, which for RTMP is the
registry entry once ingest removes it. The end of a broadcast is told a second
time, on the event bus, and the two are not ordered.

The hazards of this code are listed in `PROJECT.json` at the line where each
bites, with the properties that cover it.

## 2. Modules

| Module | Models | Run | Proved in |
|---|---|---|---|
| `FragmentBroadcaster` | the fan-out of one track | `broadcaster` | `FragmentProofs` |
| `FanoutContract` | abstract: what a subscriber may rely on | (a property of `broadcaster`) | same |
| `BroadcasterRegistry` | the registry and its callbacks | `registry` | `FragmentProofs` |
| `AgentRunner` | the agents' runner on top of the registry | `agents` | `RunnersProofs` |
| `TranscodeLadder`, `TranscodeBackends` | the transcode runner; the worker thread and every encoder | `agents` | `RunnersProofs` |
| `RtmpIngest` | sessions, bridge, live-session map | `rtmp` | `RtmpIngestProofs` |
| `MeshCoordinator` | relay tree, its three callers, signalling map | `mesh` | `ClusterProofs` |
| `ClusterClaim` | claim bridge, leases, gossip copies | `cluster` | `ClusterProofs` |
| `HlsPlaylist` | one LL-HLS rendition with cache, drains, finaliser, players | `egress` | `EgressProofs` |
| `Archive` | drains, blocking writes, index, signed asset | `egress` | `EgressProofs` |
| `LiveSessions` | what the next three share: registry, bus, inventory | (with them) | - |
| `SrtIngest`, `WhipIngest` | the two servers; the transport stream demuxer | `ingest` | `SessionProofs` (not the demuxer) |
| `RtspServer`, `RtpFraming` | connections; packets and the byte stream | `rtsp` | - |
| `WhepEgress`, `DashServer`, `WsSessions` | WHEP; DASH segments; WebSocket sessions and the recorder | `playback` | `SessionProofs` |
| `AuthChain`, `PlaybackGate` | keys, webhook, reload; signed URLs and key sets | `requests` | `RequestPlaneProofs` |
| `DashManifest`, `HlsMaster`, `HlsRenditions` | the MPD; the map of broadcasts and the master playlist; captions, deltas, reports | `requests` | - |
| `AdminApi` | routes that change something | `requests` | `RequestPlaneProofs` |
| `ServerLifecycle` | the process: start, serving, stop | `requests` | `RequestPlaneProofs` |
| `AdminFeeds` | feeds and listings of the admin API | `requests` | - |
| `FilterTap`, `CaptionAgent`, `SignalRouting` | WASM filter; whisper agent; signalling and relay tables | `requests` | `ServicesProofs` |
| `ClusterGossip` | gossiped entries | `requests` | - |
| `FederationLink` | links, forwarders, runner | `federation` | `ClusterProofs` |

`Runners`, `Egress`, `IngestServers`, `RtspWire`, `Playback` and `RequestPlane`
compose parts. `IngestServers` composes two servers that share the inventory and
the bus, interleaved. The others put side by side parts that share no state (or,
in `Playback`, that only read a shared origin), and explore each while the others
have nothing to do: interleaving parts that cannot see one another adds states and
no behaviour.

A definition that differs from its neighbour by one bug (`InsertNoRecheck`
beside `Insert`) is a mutant: no specification uses it, and `PROJECT.json` names
the property it must break.

### State and actions

**FragmentBroadcaster.** `tail` counts the fragments the channel accepted, so a
fragment is its position; `next[s]` is a receiver's position. `emit` is two
steps (`EmitCount`, `EmitSend`) because the counter is bumped before the send.
`subscribe` is two steps (`SubscribeRx`, `SubscribeMeta`): the receiver is made,
then the metadata is copied. `next_fragment` is `RecvOk`, `RecvLagged` or
`RecvClosed`. The tokio channel is external and is modelled from the way it is
used. Metadata is a version number.

**BroadcasterRegistry.** One program counter per thread. `LookUp` is the fast
path, `LockForInsert` enters the write lock, `FindRacing` and `Insert` are the
outcomes of the second look, `SnapshotCreated`, `FireCreated` and
`ReturnCreated` are the callback loop on a snapshot, and likewise for remove.
A callback step needs the map's read lock, because real callbacks call back
into the registry. History variables (`due`, `fired`, `rfired`, `removals`,
`late`) record which callbacks ran for which broadcaster. Poisoned locks are
not modelled.

**AgentRunner.** The registry is reduced to the incarnation registered under a
key. `spawn_for` is a check (`CallbackCheck`, `AddGet`) and an insertion under
the shard lock (`CallbackInsert`, `AddInsert`); between them the factory builds
the agent. `remove_agent` only marks a task: an aborting task may still be in its
last poll and goes in a step of its own (`AbortTakesEffect`; likewise for the
transcoder's). One simplification: the key list `add_agent` walks is taken in one
step, as `registry.keys()` is.

**TranscodeLadder and TranscodeBackends.** A broadcast is the sequence of
renditions it was made through, `<<>>` the source; creating an output calls the
runner back, which is what `NoSelfFeeding` is about. A backend is a record: the
elements its probe asks for, those its pipeline uses, and how it hands on what
comes out. The worker's queue, loop, header, end of stream and join are actions.
The model assumes that a playing pipeline does not stall.

**RtmpIngest.** A connection is a process whose steps are the arms of the
session loop and the parts of the bridge callbacks that other connections can
see between: `OnPublishStarted` (event and gauge) before `OnPublishInsert`
(map), `UnpublishRemove`, `UnpublishStop`, `UnpublishDropVideo`,
`UnpublishDropAudio`. A response, the acceptance of a publish and the refusal of a
codec are writes the session waits for without looking at its token (`reply`,
`accept`, `reject`); they end when the peer reads (`Written`, `Rejected`), which
nobody promises. A media callback is one step, since it holds the stream's
map entry throughout. `exclusive`, chosen initially, says whether encoders
reuse a name only when the server is done with every earlier session of it;
properties that hold only then say so.

**SrtIngest, WhipIngest, LiveSessions.** A session's token is its own name. The
inventory is keyed by broadcast name, so registering replaces a row and
deregistering removes it whoever it belongs to. The WHIP bridge's handling of a
sample is split where the code releases the stream map. The demuxer (`TsDemux`)
sees a stream of packets of which any may be missing; PES packets and sections
are assembled packet by packet.

**RtspServer and RtpFraming.** The connection loop is one action per request
and per arm of its select; every answer goes through the connection's bounded
channel. A write to the socket is a place of its own (`writing`): it ends when the
client reads or goes, and until then the loop sees neither token nor input. A byte
is a pair of what it is for and its value; a unit passes the
packetizer, is cut into reads anywhere, and is compared with what was sent.

**HlsPlaylist.** `Push` changes the builder under its lock; the cache is filled
in later steps (`Insert`, `Coalesce`, `Purge`), as `push_chunk_bytes` does after
it drops the lock, and only then are the waiters woken. A part is named
`<<s, i>>`, a segment `<<s>>`; the bytes of either are the chunks they are made
of. `Finalize` comes from the bus, in a task of its own. A player's blocking
reload is `Ask`, `Check`, `Sleep`, `Deadline`, `Render`.

**Archive.** A fragment is `<<publication, decode time>>`. Every drain hands
it to a blocking task that truncates, fills, and writes the row, in any order
with its siblings; a crash keeps files and rows.

**WhepEgress, DashServer, WsSessions.** Publications and keyframes are numbered.
An offer reads the caches (`SeedAudio`, `SeedParams`, `SeedKey`) before it lists
the session (`List`); the observer walks the listed sessions one by one
(`FanOut`). A DASH drain counts from 1 after every new init segment, and only
writes when the number is new. The relay is a track task that awaits a bounded
channel and a loop that empties it; the recorder sees the event bus and lags when
it is full; it asks for the tracks some time after the announcement, and gives up
if they are not there yet (`early`, or `late` when they are gone again). The sends
of the relay to its client, of the assignment and of a frame, are places of their
own (`assigning`, `sending`) that a client which does not read holds for ever.

**MeshCoordinator.** `add_peer`, `remove_peer` and `reassign_peer` are split at
every access to the map. The callers are processes: WebSocket sessions,
signalling sessions and the reaper. `limit`, chosen initially, is the number of
operations that may overlap, 1 or 2.

**ClusterClaim.** A lease is the time it has left; `view` and `ghost` are the
copies other nodes hold of a node's current and earlier generation. A dropped
claim leaves a `dying` renewer, which may renew once more, write its tombstone,
or be aborted before either. Nodes share a clock, as `docs/cluster.md` asks for;
gossip copies directly from the writer and may never happen; at most one old
renewer per node is still dying when the next claim is made.

**FederationLink.** A step of a task runs from one await to the next. A
connection attempt may hang in work nothing interrupts (`Hang`, the link is
then `stuck`). The retry delay is computed by `next_delay` as the code does,
with a jitter of up to 10 %; the attempt is counted before the delay is taken.

**The modules of `requests`.** Each is a small machine beside the others, with
the same rule: one action from lock to lock or from await to await. `AuthChain`
has the key store's two indexes as separate steps, the webhook's cache, queue
and fetcher, and the three swap cells of a reload; `PlaybackGate` one request
from path to answer while the secret and the key set change; `DashManifest`,
`HlsMaster` and `HlsRenditions` a manifest read lock by lock while drains write;
`AdminApi` and `AdminFeeds` overlapping requests and what they are told;
`ServerLifecycle` the fixed order of `start` as a sequence of steps with the
flags each needs, and the provider in force, which the configuration file replaces
at boot and with every reload.

## 3. Runs

Every run passes. A bundle such as `PlaylistInv` is a conjunction of named parts;
the parts are named here where they say something of their own.

* `broadcaster`: two producers, two subscribers, a ring of two, four emits and
  one metadata update, so that a subscriber can lag twice and a stream can end
  behind, at and ahead of the tail. `Delivery`: every accepted fragment is
  delivered, lost or still ahead, losses are counted and never larger than the
  ring forces, the end is complete. `SnapshotCoversJoin`: the metadata snapshot
  is not older than the join. `ContractSpec`: the whole implements
  `FanoutContract`. `StreamsEnd`.
* `registry`: three threads, one key, three calls, two callbacks of each kind.
  Three threads let a creator, a racer and a remover overlap; one key is enough
  because keys share nothing but the lock. `NoOrphanBroadcaster`,
  `CallbacksExactlyOnce` (on the removing side: never twice, and each of them once
  when the call has returned), `CreatorNeverAhead` (an action property),
  `EveryCallReturns`.
* `agents`: one agent, one key published three times, one admin at a time.
  `OneTrackedDrain`; `NoSourceBetweenTheCracks`: at rest a drain of the agent runs
  on every live source it accepts, unless the slot of an earlier publication of
  the key is in its way. One agent is enough for the run because agents share only
  the list and a request names one of them; the proofs have any number. Then two
  renditions that one operator adds and removes while their outputs appear
  (`LadderInv`: no drain feeds on an output of a rendition that was never removed,
  and none lacks its slot on a live source); the worker with a queue of two and
  five inputs, for eight backends, each in turn with one missing element
  (`WorkerInv`: outputs are the inputs in order, none after the end, the probe
  covers the pipeline, ADTS frames are exact, an init segment first). `TasksEnd`.
* `rtmp`: two connections, one name, two publish requests; the second is a
  re-publication on the same connection or a publication by the other while the
  first session is in any state. `BridgeInv`: no broadcaster outlives its stream,
  stops match starts, init before media, and the bus agrees with the bridge at
  rest (the last two while a name has one session at a time). `KilledSessionEnds`:
  a killed session ends unless it stays for ever in a write to a peer that does
  not read.
* `mesh`: two WebSocket and two signalling sessions that may share ids, one
  self-chosen id, one root slot, depth 2, fan-out 2, reported capacities below
  and above the limit; four connections when operations do not overlap, two when
  they do. `TreeInv`: parents and children agree and loads keep within limits
  while operations do not overlap. `UnheldEntryGoes` for all.
* `cluster`: one origin, two observers, two tracks, lease 4, renewal every 1, a
  renewal at most 2 late, one crash. `HeldLeaseLives`, `StaleOwnerExpires`,
  `ClaimsSettle`.
* `egress`: LL-HLS with two publications and two chunks between them (so that both
  may come from one, or one from each, and either may come before its init
  segment), a window of one segment, one player: evictions, coalescing and
  finalisation meet in every order. `PlaylistInv`: the window is consecutive and
  in decode order, no URI is given out twice, every listed part is served.
  `BodiesFixed`: a URI keeps its bytes. `ReloadsServed`: a blocking reload is
  answered, and never early. The archive with two publications, two writes (of one
  file or two), a signed asset and a crash. `ArchiveInv`: a row serves its
  fragment, an asset is in order and matches its manifest, and a range query
  returns overlapping rows only, in order, and misses one only behind a row that
  starts inside it before the query; rows last one unit or four, so that they may
  overlap, touch, and span a query. The bounds are small because everything this
  run checks but the answering of reloads is proved for all values.
* `ingest`: one SRT connection and two WHIP sessions of one name, with an
  operator. `SessionsInv`: rows are open sessions, no stream without a session,
  init first, stop last. A transport stream of up to three PES packets, two
  sections and three packets on air, with losses. `DemuxInv`: every PES packet
  that arrived whole comes out, and no cue is a mixture. `KickEnds`.
* `rtsp`: one connection with two sessions, three drains and a channel of one.
  `ConnectionsInv`: rows, stops and init segments are right, and the bytes of a
  recording connection come out as the units that were sent, for units that fit
  one packet, two and more, read in up to four bytes at a time. `KickHonoured`: a
  stopped connection ends unless its loop stays in a write to a client that does not
  read or waits on its own channel. `DrainsEnd`: the drains of a closed connection
  end, and after a read error those that have something to send.
* `playback`: one WHEP viewer and two publications with two keyframes each; two
  DASH drains with a ring of two; a relay, a recorder and a bus of three.
  `WhepInv`, `DashInv`; `WsInv`: init segments first, and what is live is recorded
  unless its recorder asked for the tracks before they were made; `SessionsEnd`: a
  relay whose client leaves ends with its task, and one whose publication ends does
  so unless its client stops reading. One viewer is enough for the run
  because sessions do not see each other; the proof has any number.
* `requests`: what the server answers. `AccessInv`: what a stream key opens
  follows its rotations and revocation (but for rotations of one key that
  overlap), a reload that runs alone settles all cells, the webhook loses no
  wake-up, a signature decides alone, and only admins change anything.
  `AnswersInv`: MPD, master playlist, captions, delta updates, listings, log tail
  and members say what is there. `ServicesInv`: consumers before publishers, a
  stop is local and complete, the reported authentication mode is the one in force
  as long as no configuration file brings another; signalling and the relay's
  announcements reach living sessions, once each; the WASM filter runs the file it
  watches and its counters agree; no frame that the captions agent accepted is
  lost, and its cues are in order. Its constants, in `RequestPlane` and its
  configuration, are small but chosen for the edges: a capacity of one for every
  cache and channel, two moments at the end of a day (one before a leap day), a
  window of seven of eight segments, two starts of one node. A part's claims are
  evaluated in the states in which that part is the one asked.
* `federation`: two links, delays from 10 to 30 with up to three counted
  attempts, two shadows. `LinksInv`: the status is honest and no task survives
  the runner. `BackoffGrows`, `Reconnects`, `ShutdownCompletes`.

`CHECK_DEADLOCK FALSE` is set where a model may stop because its publishers,
admins and sessions may all have left within the bounds; `requests` and
`federation` are checked for deadlock.

### Fairness

Nothing is assumed of publishers, viewers, admins, peers or the network: they may
stop at any point. Assumed are:

* a spawned task that can take a step eventually takes it (weak fairness of the
  steps of a drain, a callback, an admin request, a session's current operation,
  a renewer, the reaper, a worker thread, a link, a relay's tasks, a player's
  request in the server): tokio polls ready tasks, and no modelled loop blocks a
  worker;
* strong fairness where a `select` may find other work ready each time it comes
  round: the token of an RTMP session (its select is `biased` towards the token
  and each batch of events is finite), of an RTSP connection and of a WHIP
  session. Where the code waits outside its `select`, in a write to a peer that may
  not read or on its own full channel, nothing is assumed to end the wait, and the
  properties of RTMP, RTSP and the WebSocket relay except a session that stays
  there;
* `MeshCoordinator`: the reaper's interval fires and heartbeats grow old;
* `ClusterClaim`: strong fairness of `Tick`. Time passes although a due renewal
  may hold the model's clock back for a moment: the bound on lateness is stated
  as "time stops when a renewal is `Slack` late", and without strong fairness a
  publisher that comes and goes for ever could stop the clock.

A connection attempt of a federation link may hang for ever; nothing says it
returns, and the properties are stated so that they hold all the same: the grace
period aborts it.

## 4. Proofs

All theorems hold for every value of the constants that satisfies the
assumptions stated in the component's module. Each invariant below is stronger
than what it proves, because the property alone is not kept by every step; each
was first checked by TLC as an invariant of the run named above.

* `FragmentProofs`, of the fan-out: `TypeCorrect`, `DeliveryGuaranteed`,
  `SnapshotFresh`, `Refinement`. `IInv` adds two facts to the properties: a stream
  not yet handed out has an empty ledger (otherwise a join would not start the
  account at zero), and the metadata at join is not newer than the current one
  (otherwise the copy made afterwards could be too old). The refinement maps the
  two-step subscription to `Join` at the moment the receiver is made, and every
  other internal step to a stutter. Assumption: the capacity is at least 1, as
  `capacity.max(1)` makes it. Of the registry: `RegistryTypeCorrect`, `NoOrphans`,
  `CallbacksOnce`, `CreatorBehindDrains`. Exactly-once is not inductive: `RInv`
  ties each creating call to its own broadcaster (`OneCreator`), says what is left
  of its snapshot has not run and what is behind it has (`CreatorProgress`), and
  that callbacks are never uninstalled (`DueInstalled`); on the removing side the
  call that took the entry out (`Unhooking`) owes the callbacks it found
  installed, and when it is back each has run once.
* `RunnersProofs`, of the agents: `AgentTypeCorrect`, `DrainsTracked` (any number
  of concurrent requests) and `NoneBetweenTheCracks` (under `OneAdmin`). The key
  notion is debt: an empty slot on a live source is owed by the callback that has
  not copied the factory list, or not reached the agent, or by the `add_agent`
  that has not visited the key. A slot that is not of the live source is of an
  earlier publication, which is the exception the property states. `SweptIsGone`
  is what a second concurrent admin breaks. `AgentsAmongTheTasks` carries them
  over to the run, where agents, ladder and worker are composed.
  `RenditionsSound`, of the transcoders. For the ladder, `SlotsOwed` is the same
  debt, on the source; `Lineage` says that every registered path below the source,
  every drain and everything in hand comes from a rendition that was once on the
  ladder, so that whatever `IsOutput` lets through, at the moment it looks, ends
  in a rendition that is gone (`SourcesOnly`). For the worker, `Unbroken` says
  what holds as long as no loss is recorded as a break: what came out, what the
  pipeline holds and what the channel holds are, one after the other, the source
  without what a full channel cost (`InPipe`), the sender lives until the drain
  stops, and a thread that leaves its loop has emptied the channel. That a factory
  probes all its pipeline names follows from the lists, and the three bytes of the
  ADTS length give back every length of 13 bits (`AdtsLength`).
* `RtmpIngestProofs`: `BridgeAgrees`. `IInv` counts, for every name, the
  sessions between an event and the change of the stream map it announces (the
  finite set `Pending`), so that starts and stops on the bus and the entry in the
  map are in step through every callback; adds that a name has one holder when
  encoders are exclusive, that a stream being torn down is not in the map, that a
  known configuration has reached the broadcaster, and that the last event of a
  name is what its map entry says. One lemma (`CallbackStep`) carries every
  callback: it says what a step that changes one session and at most one entry
  must show. That `Pending` is finite is part of the invariant, so any number of
  connections is covered.
* `ClusterProofs`, of the claims: `ClaimTypeCorrect`, `HeldLeaseNeverLapses`,
  `FormerOwnersExpire`. `Renewed` relates what a lease has left to the next
  renewal (`lease >= Lease - Renew + due`); with `due >= -Slack` and `Renew +
  Slack < Lease` the lease is positive. `Aged` says that every copy of a lease
  plus the time since its node held a claim is at most a lease, which time and
  copying preserve; `WriterPresent` that only a node with a claim, or with a
  renewer still dying, writes. Of the federation links: `LinksHonest`,
  `WaitGrows`. `FInv` adds that the last delay of a link is one that `next_delay`
  gives for the attempts it has counted (`DelayFits`), and that the runner goes
  through its phases in order. `Doubled` either doubles or reaches the largest
  delay, and a jitter of 10 % cannot undo a doubling. Powers of two enter through
  `ShiftAssumption` (doubling from each attempt to the next), since their
  recursive definition is out of the provers' reach; TLC evaluates it in every
  run. Of the relay tree: `TreeSound`, for any number of sessions, ids and
  children and any limits. Like `TreeInv` itself it is about operations that do
  not overlap; behaviours in which they do are in the invariant with their types
  only. `OneAtATime` says for every step of an operation how far it has come.
  `Paired` is the agreement of parents and children but for what is half linked: a
  new peer its parent does not list yet (`Unlisted`), a removed one its parent
  still lists (`Departing`), children of a removed one (`Orphaned`). `Waits` says
  that the orphans left to be freed point to the peer that is gone and the freed
  ones to nobody, and `Knows` that what was read is still true when it is used:
  there is a root slot, the parent chosen has room and is not too deep. That
  `Loads` is kept follows from the last. `Unheard` keeps the id of a relay session
  apart until it is opened. A list without one of its members is a recursive
  function; that it has all the others, once each and in a list of their number at
  most (`WithoutKeepsTheRest`), is an induction (`CountUp`). Assumptions:
  `MeshNames` (relay sessions, signalling sessions and made-up ids are told apart)
  and `MeshEntries` (an entry is not the absence of one).
* `EgressProofs`: `PlaylistAgrees`, `BodiesNeverChange`, `ReloadsNotEarly`, for
  the playlist. URIs are given out in an order (`Past`: before the number and
  index that come next), and the parts of the window stand in it (`InUriOrder`),
  so what an eviction takes out is behind all that is left and a purge that comes
  late never removes a listed part (`PastEvicted`). A part on its way to the cache
  is the only one of its name and not yet cached (`InHand`), which is why an
  insertion replaces nothing. A task has at most one closed segment to coalesce
  (`ClosedWork`). A reload that was ready stays ready when a segment closes, moves
  or is evicted (`SlideKeepsReady`), so the answer, rendered under another lock
  than the check, is never early. The loop that puts a segment's bytes together is
  a recursive function; that it yields chunks (`BodyTyped`) is shown by an
  induction over indices obtained from the theorems on finite sets (`Countable`).
  Assumptions: finitely many publications, a window of at least one segment.
  `ArchiveSound`, for the archive. `AInv` rests on a publication never using a
  file number twice: a drain has kept no more fragments than it has read
  (`TapFits`), so a blocking task has its number to itself within the publication
  (`OneWriter`) and what it wrote stays in the file unless another publication
  uses the number (`WriteFits`); a row was written after its file (`RowFits`). As
  long as there was one publication, the files a drain lists and what it has read
  of them stay as they are (`Listed`), and nothing was signed before
  (`SignedFits`). What a scan finds and what it may miss follows from the index
  alone (`ScanKeys`): the keys of a finite set have one order (`OrderedKeys`), the
  row before the range is the greatest one (`HasMax`), and whatever else overlaps
  the range from before it has that row start inside it.
* `SessionProofs`, of playback: `SegmentsInOrder` (DASH), `SessionsInStep` (WHEP,
  any number of viewers; a session that was raced while it joined is excepted),
  `InitSegmentsFirst` (WebSocket and recorder; a recorder that was too early is
  excepted). `DInv`: no drain is ahead of the newest number, and a drain that is
  about to write has no later writer, or the history says that it was overtaken.
  `WInv`: the messages of one kind in a session's channel are in order, a session
  that is being seeded has or will get what the cache holds, and in the channel
  parameter sets come before the keyframe that needs them. `SInv`: what a viewer
  has, its channel, and what its track task will still send are consecutive frames
  from a group head; init segments are exactly the heads; starts and stops
  alternate on the bus while none was missed, and a recorder that takes a start
  has taken the stop before it. Of ingest: `SessionsAgree`, for the SRT and WHIP
  servers, any number of connections and sessions; what it says of a name's init
  segments and stops excepts names that overlapping sessions share. `IngestInd`
  adds to the property: sessions of one name have crowded it (`Crowds`); a noted
  init segment has been published (`SrtReady`, `VideoReady`), or the session that
  added the audio track is about to publish it (`AudioReady`), which is why
  nothing precedes its init segment where a name has one session; a session about
  to publish still has its stream (`StreamHeld`); and behind every live name is
  somebody who will announce its stop (`StopAhead`). Assumption
  `SessionsAssumption`: a session belongs to one of the two servers.
* `ServicesProofs`, of the services in a server, one invariant each.
  `SignalInd` (signalling): the numbers of the signals in every queue are below the
  next one (`Numbered`), and a session that left still has to tell everyone it saw
  whom it has not told (`FarewellsOwed`). `RelayInd`: a connection's identifier is
  its own, its start is among the calls to the mesh and its end is not
  (`LinksKnown`). `FilterInd`: while the file is watched and no news of it waits in
  the channel, the chain runs it, or the reloader has it or is about to read it
  (`FileFollowed`); a slot has counted what the taps have counted and what they are
  about to count, `SeenBy`, `KeptBy` and `DroppedBy`, summed over any finite number
  of taps (`Total` is a recursive function over sets: that it is a sum, `Sums`, is
  an induction over cardinalities, and `TapByTap` takes what follows one tap at a
  time). `SpeechInd`: a frame that was accepted is in the queue, in the window or
  spent (`FramesKept`), frames are in order and the cues are behind them
  (`FramesInOrder`, `CuesBehind`), and the worker's stage follows the agent's
  (`ScribeFollows`). Assumptions: `RoutingAssumption`, `FilterAssumption` (finitely
  many taps).
* `RequestPlaneProofs`, of the process and its services: `ServicesSound`, from
  `LifeInv` and the invariants of `ServicesProofs`. `LifeInv` follows the start
  (`NotYet`, `Booting`: the consumers and sockets of the steps done so far), the
  serving process (`Serving`) and the stop: a cancelled token has a reason
  (`TokenHasReason`), a listener that stops in order waits for its connections and
  shutdown for the listeners (`StopsWait`); accepted flags name one provider at
  most (`FlagsAgree`); and the provider in force is the one that the flags and the
  section applied last make (`AuthFits`). `ModeHonest` follows where that section
  sets no strategy the flags do not set. `AccessIsRight`, of everything that
  decides whether a request is let in. Keys that two rotations met on, and cells
  that overlapping reloads mixed, are excepted as the properties say. `GateInd`
  (playback): the cached key set and a document on its way are each one the issuer
  published (`KeysAreASnapshot`, `FetchedIsASnapshot`), and a signature is passed
  over for a token only when there was no secret (`TokenIsSecond`). `AdminInd`
  (admin routes): only admins wait (`CallsAllowed`); every creation let through
  but one has its removal before it (`CreationsCounted`), counted over the callers
  in flight, so any finite number of them is covered; and without overlap the
  resource is as far as the one request is (`Alone`). `ChainInd` (stream keys,
  webhook, reload): what is in the maps and in the requests has been handed out
  (`HandedOut`, `TokensApart`), a key being minted is nobody else's
  (`MintsAlone`), the index has the token of each key or a rotation is about to
  write it (`CurrentStands`), any other token of a key that no two requests met on
  is about to be removed (`OldOnesLeave`), and a revoked key never comes back
  (`RevokedForGood`); a check remembers the revocations before it
  (`RevocationsSeen`); an instance of the webhook provider exists as long as
  somebody refers to it, and what a reload has built is its own until it is in the
  cell (`InstancesHeld`); a reload that runs alone has set the cells it has passed
  (`ReloadsApart`); and a question in the queue is never forgotten
  (`KickNotLost`). Assumptions: `AdminAssumption` (finitely many callers, a bound
  on the model's calls), `StoreAssumption` and `ChainAssumption` ("none" is no
  identifier, token, slot or task; requests present tokens; there is a slot and a
  file to load).

What stays with TLC, and why:

* liveness (`StreamsEnd`, `EveryCallReturns`, `TasksEnd`, `KilledSessionEnds`,
  `UnheldEntryGoes`, `ClaimsSettle`, `KickEnds`, `KickHonoured`, `DrainsEnd`,
  `SessionsEnd`, `Reconnects`, `ShutdownCompletes`, and the answered half of
  `ReloadsServed`): the installed prover does not reason about fairness and
  ENABLED;
* what recursive definitions compute for every input: the library's induction
  theorems have an operator parameter, which none of the backends can instantiate.
  The inductions that were needed go the way of `Countable` and `CountUp`, over a
  set of numbers. Recursion is written as recursive functions or with the
  community modules' folds; no module declares a `RECURSIVE` operator;
* `DemuxInv` (transport stream) and `ConnectionsInv` (RTSP): both say what a parser
  made of a byte stream cut at every place, by comparison with a recursive scan of
  the whole stream: induction over data;
* `AnswersInv`: the answers of the parts that mostly read (manifests, playlists,
  listings, members), most of them folds over sequences.

## 5. What the models showed beyond the runs

Behaviour that follows from the modelled code and that the properties allow for
or leave out:

* Fan-out and agents. A second caller of `get_or_create` may emit before the
  creator's callbacks have subscribed (`lvqr-fragment/src/registry.rs:212`); the
  creating thread never can. A finished drain keeps its slot in the task map, so a
  source published again gets no drain (`lvqr-agent/src/runner.rs:66`, and the
  transcoder's likewise), where the doc of `install` says that every new pair gets
  one (`:266`); `NoSourceBetweenTheCracks` excepts it. A creation callback that
  copied the factories before `remove_agent` may start the removed agent
  afterwards (`:293`). The doc of `install` says dropping the handle aborts every
  task (`:270`); the callback keeps the shared state alive, so it does not.
* Transcoding. Outputs are never removed from the registry, and once a rendition
  is removed its outputs count as sources for the others
  (`lvqr-transcode/src/runner.rs:90`). A worker's full queue drops fragments with
  a counter only.
* RTMP. The exits on an I/O or parse error skip `on_unpublish`
  (`lvqr-ingest/src/rtmp.rs:390`); the end of an old session removes the row of
  the new session of its name (`lvqr-cli/src/lib.rs:1067`); a DELETE kills whoever
  holds the name now; the `scte35` track has no teardown (`bridge.rs:264`). The
  session writes its responses outside the `select` that watches its token (`:407`,
  `:418`, `:446`, `:559`), so one whose peer stops reading survives its kill, where
  the admin route says it kicks; `KilledSessionEnds` excepts it.
* SRT, WHIP, RTSP. None of the three servers removes registry entries, so their
  drains end only when the bridge's own handle goes. Two WHIP sessions of one name
  may put audio before its init segment. The demuxer checks no continuity counter
  and never flushes the last PES packet. An RTSP read error skips the exit code
  (`lvqr-rtsp/src/server.rs:346`; `:250-253` and `:414-417` say that every path
  runs it), so the rows stay and a drain of a silent source lingers, which
  `DrainsEnd` excepts; one malformed read clears the buffer in the middle of a
  frame (`:384-389`), which `MediaIntact` excepts; a connection whose loop waits
  on its own full channel does not see its token (`:377`), nor does one whose
  client does not read while it writes (`:339-344`), which `KickHonoured` excepts.
* HLS. `finalize` between the release of the builder's lock and the cache
  insertion coalesces a segment without that part for good
  (`lvqr-hls/src/server.rs:292-295`); a wake-up can be lost between the check and
  the wait (`:549`), and the reload is then answered at its deadline; a
  re-published stream is refused until its timestamps pass the old ones; the
  discontinuity tag lands on the old segment; `push` ignores `ended`, which
  `manifest.rs:767-775` says it rejects. A rung is listed in the master playlist
  from the moment its entry exists, although it has no frame, where
  `server.rs:916-919` and `:1279-1281` say that empty siblings do not show up: an
  entry always has its video rendition (`:750-773`); `RungsInOrder` demands
  playing rungs only. A broadcast whose name ends in `/captions` is routed to the
  captions of its parent (`:1100`), so its own files cannot be reached.
* DASH. `finalized` is never reset, so a re-publication stays static; segments of
  the old run above the new counter stay served; splice sections without an event
  id collapse into one event, where HLS keeps one for each time.
* WHEP, WebSocket, recorder. Caches are never cleared, so an old keyframe can be
  replayed behind new parameter sets after a re-publication; a message published
  between a session's seeding and its listing does not reach it; the recorder
  writes every later init segment as media. BroadcastStarted is emitted before the
  tracks exist (`lvqr-cli/src/ws.rs:434`), so a prompt recorder finds none and
  gives up, where `:14-19` and `:560-562` say that such broadcasts are recorded;
  `LiveIsRecorded` excepts it. The relay sends to its client inside a `select` arm
  (`:259`): a client that stays and does not read keeps the session, its task and
  its place in the mesh, which `SessionsEnd` excepts.
* Archive. A range query looks at one row before its start
  (`lvqr-archive/src/index.rs:221-247`); where rows overlap, as those of
  overlapping publications do, a longer row before that one is missed, where the
  trait promises every overlapping segment (`:27-31`); `RangeExact` says exactly
  when. Writes are not awaited, so a signed asset may miss fragments; file numbers
  restart with every publication and overwrite.
* Mesh and signalling. `heartbeat()` has no caller outside tests, so the reaper
  evicts every peer some ten to fifteen seconds after it joined
  (`lvqr-mesh/src/coordinator.rs:272`); an orphan may be made its own parent
  (`:193`); overlapping operations leave dangling parents (`:126`). The end of an
  old session of an id removes the newer one's entry, and a clean Close leaves a
  session registered until a message to it fails.
* Cluster. A re-publication while the old task is still in the dedup set is never
  claimed (`lvqr-cli/src/cluster_claim.rs:74`). Nothing in the server feeds the
  capacity gauge, so zeros are advertised; a member list keeps whichever
  generation of an id it meets first.
* Federation. The attempt is counted before the delay is computed, so the first
  retry waits two seconds where `federation.rs:385-386` says one; a session that
  closes counts as a failure, so the backoff is never reset by it; forwarders wait
  for shutdown only, so a reconnect makes a second shadow.
* Auth and playback. Two rotations of one key that overlap may leave the older
  token in the reverse index (`lvqr-auth/src/stream_key_store.rs:229-235`), and it
  opens the key until the key is revoked, where `:56-58` say that it is invalid at
  once. Overlapping reloads may leave the cells with parts of different contents
  (`lvqr-cli/src/config_reload.rs:441-443`) until the next reload. `AccessInv`
  excepts both. A token or signature bound to `live/a` is refused below
  `live/a/captions/` and below rung paths, because the broadcast is all up to the
  last slash. The authentication mode is classified once from the command line
  (`lvqr-cli/src/lib.rs:184-204`), so a provider that only the file configures is
  reported as `noop`, and after a file replaces a supplied provider the mode stays
  `configured`; `ModeHonest` excepts both.
* Process. `main` waits for Ctrl-C only, so a process whose listener failed lingers
  without listeners; an open log tail never ends, so a graceful stop waits for it;
  a failed start leaves the listener for reload signals.
* Whisper. Frames dropped at a full queue shift the times of later cues in a
  window; the captions entry stays registered when the worker fails to start,
  until `on_stop`.

## 6. What is left out of the models

* Contents: media bytes, codec configuration, names, encodings, error texts,
  counters that only an operator reads. Timestamps are kept where order or a window
  depends on them.
* The MoQ sinks and the catalog that the bridges feed beside the registry, and the
  adapters to the external MoQ library.
* Container and codec parsers other than the transport stream: they are sequential
  and keep no state between calls.
* Panics inside locks, allocation failure, a registry used outside a runtime, a
  media pipeline that stalls, a window of zero segments.
* A client that makes up the id (`ws-<number>`) of a relay session yet to come, and
  more than two overlapping mesh operations; more than one old renewer per node;
  clocks that disagree.
* External libraries (tokio's channels, chitchat, rml_rtmp, dashmap, str0m,
  GStreamer, wasmtime, redb) beyond the behaviour the code relies on.
* Test tools, client libraries and the browser console: they are not the server.

`PROJECT.json` says for every component what is modelled and what is not.

## 7. Plan

What would come next, in this order:

1. Of `AnswersInv`, the part whose state changes most: the gossiped entries.
2. `ConnectionsInv` without the byte stream: what a connection may receive in which
   state.
