----------------------------- MODULE RtmpIngest ------------------------------
(***************************************************************************)
(* RTMP ingest: the session loop of each connection                        *)
(* (crates/lvqr-ingest/src/rtmp.rs), the bridge's stream map and its       *)
(* publish, unpublish and media callbacks (crates/lvqr-ingest/src/         *)
(* bridge.rs), and the CLI's map of live sessions that the admin API lists *)
(* and kills (crates/lvqr-cli/src/lib.rs).                                 *)
(*                                                                         *)
(* Connections run in parallel and share everything that is keyed by       *)
(* broadcast name.  A connection is used once: a reconnecting encoder is a *)
(* new connection.  Batches of events come out of one read, so a           *)
(* cancellation is noticed only when the loop comes around, and not while  *)
(* a response is written to a peer that does not read.                     *)
(***************************************************************************)
EXTENDS Integers, FiniteSets

CONSTANTS
  Conns,      \* TCP connections
  Names,      \* broadcast names "app/key"
  None,
  MaxPublish  \* bound: publish requests in all

ASSUME RtmpAssumption ==
  /\ MaxPublish \in Nat
  /\ None \notin Conns \cup Names

Media == {"0.mp4", "1.mp4"}
Tracks == Media \cup {"scte35"}

VARIABLES
  exclusive, \* whether an encoder publishes a name only when the server is done
             \* with every other session that published it
  pc,        \* connection: where its task is
  name,      \* connection: broadcast of the callback in progress
  after,     \* connection: where it goes when on_unpublish returns
  app,       \* connection: current_app is set
  key,       \* connection: current_key
  pubs,      \* connection: message streams that are publishing (rml_rtmp)
  asked,     \* publish requests so far
  guard,     \* connection: DeregisterGuard.name
  cancelled, \* connection: session_cancel
  streams,   \* bridge: ActiveStream per name: its owner and its known configs
  reg,       \* registry: state of the broadcaster per name and track
  started,   \* BroadcastStarted events (and gauge increments) per name
  stopped,   \* BroadcastStopped events (and gauge decrements) per name
  lastEvent, \* event a bus subscriber saw last per name
  sessions,  \* CLI: connection registered under a name
  bare       \* history: a fragment went to a broadcaster without init segment

conn == <<exclusive, name, after, app, key, pubs, asked, guard>>
bus == <<started, stopped, lastEvent>>
vars == <<pc, conn, cancelled, streams, reg, bus, sessions, bare>>

NoStream == [owner |-> None, init |-> {}]

Init ==
  /\ exclusive \in BOOLEAN
  /\ pc = [c \in Conns |-> "new"]
  /\ name = [c \in Conns |-> None]
  /\ after = [c \in Conns |-> "loop"]
  /\ app = [c \in Conns |-> FALSE]
  /\ key = [c \in Conns |-> None]
  /\ pubs = [c \in Conns |-> {}]
  /\ asked = 0
  /\ guard = [c \in Conns |-> None]
  /\ cancelled = [c \in Conns |-> FALSE]
  /\ streams = [n \in Names |-> NoStream]
  /\ reg = [n \in Names |-> [t \in Tracks |-> "none"]]
  /\ started = [n \in Names |-> 0]
  /\ stopped = [n \in Names |-> 0]
  /\ lastEvent = [n \in Names |-> "none"]
  /\ sessions = [n \in Names |-> None]
  /\ bare = FALSE

Unpublishing == {"unpublish", "stop", "drop_video", "drop_audio"}

\* stream.write_all(..).await of a response, of an accepted publish, and of
\* the refusal of a codec: none of them looks at the token.
Writing == {"reply", "accept", "reject"}
Live(n) == streams[n].owner # None
Goto(c, where) == pc' = [pc EXCEPT ![c] = where]

-----------------------------------------------------------------------------
(* handle_rtmp_connection and the events that only concern the session.    *)

\* The handshake completed and the session loop starts.
Accept(c) ==
  /\ pc[c] = "new"
  /\ Goto(c, "loop")
  /\ UNCHANGED <<conn, cancelled, streams, reg, bus, sessions, bare>>

\* An acknowledgement, a ping response.
Respond(c) ==
  /\ pc[c] = "loop"
  /\ Goto(c, "reply")
  /\ UNCHANGED <<conn, cancelled, streams, reg, bus, sessions, bare>>

\* The peer's side takes the bytes.
Written(c) ==
  /\ \/ pc[c] = "reply" /\ Goto(c, "loop")
     \/ pc[c] = "accept" /\ Goto(c, "on_publish")
  /\ UNCHANGED <<conn, cancelled, streams, reg, bus, sessions, bare>>

ConnectionRequested(c) ==
  /\ pc[c] = "loop" /\ ~app[c]
  /\ app' = [app EXCEPT ![c] = TRUE]
  /\ Goto(c, "reply")
  /\ UNCHANGED <<exclusive, name, after, key, pubs, asked, guard, cancelled, streams, reg, bus,
                 sessions, bare>>

\* A failed read, write or parse, or a publish the auth provider refuses:
\* the function returns, and on_unpublish is not called.
LeaveAtOnce(c) ==
  /\ pc[c] \in {"loop", "reply", "accept"}
  /\ Goto(c, "exit")
  /\ UNCHANGED <<conn, cancelled, streams, reg, bus, sessions, bare>>

-----------------------------------------------------------------------------
(* Publishing: on_publish, then the session registrar.                     *)

\* Another connection publishes n, or is still being torn down for it.
TakenByOther(c, n) ==
  \E d \in Conns \ {c} :
    /\ pc[d] # "closed"
    /\ n \in pubs[d] \/ key[d] = n \/ (pc[d] \in Unpublishing /\ name[d] = n)

PublishStreamRequested(c, n) ==
  /\ pc[c] = "loop" /\ app[c] /\ asked < MaxPublish
  /\ exclusive => ~ TakenByOther(c, n)
  /\ asked' = asked + 1
  /\ key' = [key EXCEPT ![c] = n]
  /\ pubs' = [pubs EXCEPT ![c] = @ \cup {n}]
  /\ name' = [name EXCEPT ![c] = n]
  /\ Goto(c, "accept")
  /\ UNCHANGED <<exclusive, after, app, guard, cancelled, streams, reg, bus, sessions, bare>>

\* The origin refuses the broadcast or one of its tracks.
OnPublishDeclined(c) ==
  /\ pc[c] = "on_publish"
  /\ Goto(c, "register")
  /\ UNCHANGED <<conn, cancelled, streams, reg, bus, sessions, bare>>

OnPublishStarted(c) ==
  /\ pc[c] = "on_publish"
  /\ started' = [started EXCEPT ![name[c]] = @ + 1]
  /\ lastEvent' = [lastEvent EXCEPT ![name[c]] = "started"]
  /\ Goto(c, "insert")
  /\ UNCHANGED <<conn, cancelled, streams, reg, stopped, sessions, bare>>

\* streams.insert replaces whatever is there.
OnPublishInsert(c) ==
  /\ pc[c] = "insert"
  /\ streams' = [streams EXCEPT ![name[c]] = [owner |-> c, init |-> {}]]
  /\ Goto(c, "register")
  /\ UNCHANGED <<conn, cancelled, reg, bus, sessions, bare>>

Register(c) ==
  /\ pc[c] = "register"
  /\ sessions' = [sessions EXCEPT ![name[c]] = c]
  /\ guard' = [guard EXCEPT ![c] = name[c]]
  /\ Goto(c, "loop")
  /\ UNCHANGED <<exclusive, name, after, app, key, pubs, asked, cancelled, streams, reg, bus, bare>>

-----------------------------------------------------------------------------
(* Media.  on_video and on_audio hold the stream's map entry throughout;   *)
(* without an entry, or before the sequence header, the data is dropped.   *)

\* A sequence header: set the config and publish_init.
SequenceHeader(c, n, t) ==
  /\ pc[c] = "loop" /\ n \in pubs[c] /\ Live(n)
  /\ streams' = [streams EXCEPT ![n].init = @ \cup {t}]
  /\ reg' = [reg EXCEPT ![n][t] = "init"]
  /\ UNCHANGED <<pc, conn, cancelled, bus, sessions, bare>>

\* Mutant: frames are published before any sequence header.
EarlyFrame(c, n, t) ==
  /\ pc[c] = "loop" /\ n \in pubs[c] /\ Live(n)
  /\ reg' = [reg EXCEPT ![n][t] = IF @ = "none" THEN "noinit" ELSE @]
  /\ bare' = (bare \/ reg[n][t] # "init")
  /\ UNCHANGED <<pc, conn, cancelled, streams, bus, sessions>>

\* A frame: publish_fragment, which creates a missing broadcaster.
Frame(c, n, t) ==
  /\ pc[c] = "loop" /\ n \in pubs[c] /\ Live(n) /\ t \in streams[n].init
  /\ reg' = [reg EXCEPT ![n][t] = IF @ = "none" THEN "noinit" ELSE @]
  /\ bare' = (bare \/ reg[n][t] # "init")
  /\ UNCHANGED <<pc, conn, cancelled, streams, bus, sessions>>

\* A cue point: publish_scte35, whether or not the bridge has the stream.
CuePoint(c, n) ==
  /\ pc[c] = "loop" /\ n \in pubs[c]
  /\ reg' = [reg EXCEPT ![n]["scte35"] = "init"]
  /\ UNCHANGED <<pc, conn, cancelled, streams, bus, sessions, bare>>

-----------------------------------------------------------------------------
(* The ways out that call on_unpublish.                                    *)

\* deleteStream or closeStream: unpublish and keep the connection.
PublishStreamFinished(c, n) ==
  /\ pc[c] = "loop" /\ n \in pubs[c]
  /\ pubs' = [pubs EXCEPT ![c] = @ \ {n}]
  /\ key' = [key EXCEPT ![c] = None]
  /\ name' = [name EXCEPT ![c] = n]
  /\ after' = [after EXCEPT ![c] = "loop"]
  /\ Goto(c, "unpublish")
  /\ UNCHANGED <<exclusive, app, asked, guard, cancelled, streams, reg, bus, sessions, bare>>

\* Mutant: current_app and current_key are not checked.
TeardownUnchecked(c) ==
  /\ name' = [name EXCEPT ![c] = key[c]]
  /\ after' = [after EXCEPT ![c] = "exit"]
  /\ Goto(c, "unpublish")
  /\ UNCHANGED <<exclusive, app, key, pubs, asked, guard, cancelled, streams, reg, bus, sessions, bare>>

\* Unpublish current_app/current_key if both are set, and return.
Teardown(c) ==
  /\ IF app[c] /\ key[c] # None
       THEN /\ name' = [name EXCEPT ![c] = key[c]]
            /\ after' = [after EXCEPT ![c] = "exit"]
            /\ Goto(c, "unpublish")
       ELSE Goto(c, "exit") /\ UNCHANGED <<name, after>>
  /\ UNCHANGED <<exclusive, app, key, pubs, asked, guard, cancelled, streams, reg, bus, sessions, bare>>

ConnectionClosed(c) == pc[c] = "loop" /\ Teardown(c)

\* A codec the bridge does not take: the refusal is written, and whether or
\* not that works the session is over.
UnsupportedCodec(c) ==
  /\ pc[c] = "loop" /\ pubs[c] # {}
  /\ Goto(c, "reject")
  /\ UNCHANGED <<conn, cancelled, streams, reg, bus, sessions, bare>>

Rejected(c) == pc[c] = "reject" /\ Teardown(c)

\* Mutant: a kill is noticed only by a session that publishes nothing.
CancelledIdle(c) == pc[c] = "loop" /\ cancelled[c] /\ pubs[c] = {} /\ Teardown(c)

\* The cancel arm of the read loop's select.
Cancelled(c) == pc[c] = "loop" /\ cancelled[c] /\ Teardown(c)

\* Mutant: the stop is announced whether or not the map had the stream.
UnpublishAlways(c) ==
  /\ pc[c] = "unpublish"
  /\ streams' = [streams EXCEPT ![name[c]] = NoStream]
  /\ Goto(c, "stop")
  /\ UNCHANGED <<conn, cancelled, reg, bus, sessions, bare>>

\* streams.remove; if nothing was there on_unpublish is over.
UnpublishRemove(c) ==
  /\ pc[c] = "unpublish"
  /\ IF Live(name[c]) THEN /\ streams' = [streams EXCEPT ![name[c]] = NoStream]
                           /\ Goto(c, "stop")
     ELSE Goto(c, after[c]) /\ UNCHANGED streams
  /\ UNCHANGED <<conn, cancelled, reg, bus, sessions, bare>>

\* Mutant: the stop is not announced.
StopSilently(c) ==
  /\ pc[c] = "stop"
  /\ Goto(c, "drop_video")
  /\ UNCHANGED <<conn, cancelled, streams, reg, bus, sessions, bare>>

UnpublishStop(c) ==
  /\ pc[c] = "stop"
  /\ stopped' = [stopped EXCEPT ![name[c]] = @ + 1]
  /\ lastEvent' = [lastEvent EXCEPT ![name[c]] = "stopped"]
  /\ Goto(c, "drop_video")
  /\ UNCHANGED <<conn, cancelled, streams, reg, started, sessions, bare>>

\* Mutant: only the video broadcaster is dropped.
DropVideoOnly(c) ==
  /\ pc[c] = "drop_video"
  /\ reg' = [reg EXCEPT ![name[c]]["0.mp4"] = "none"]
  /\ Goto(c, after[c])
  /\ UNCHANGED <<conn, cancelled, streams, bus, sessions, bare>>

UnpublishDropVideo(c) ==
  /\ pc[c] = "drop_video"
  /\ reg' = [reg EXCEPT ![name[c]]["0.mp4"] = "none"]
  /\ Goto(c, "drop_audio")
  /\ UNCHANGED <<conn, cancelled, streams, bus, sessions, bare>>

UnpublishDropAudio(c) ==
  /\ pc[c] = "drop_audio"
  /\ reg' = [reg EXCEPT ![name[c]]["1.mp4"] = "none"]
  /\ Goto(c, after[c])
  /\ UNCHANGED <<conn, cancelled, streams, bus, sessions, bare>>

\* DeregisterGuard::drop: remove the row of the name registered last.
Deregister(c) ==
  /\ pc[c] = "exit"
  /\ sessions' = IF guard[c] = None THEN sessions
                 ELSE [sessions EXCEPT ![guard[c]] = None]
  /\ Goto(c, "closed")
  /\ UNCHANGED <<conn, cancelled, streams, reg, bus, bare>>

-----------------------------------------------------------------------------
(* The admin API.                                                          *)

\* DELETE /api/v1/broadcasts/{name}: cancel the token of the row.
StopSession(n) ==
  /\ sessions[n] # None /\ ~cancelled[sessions[n]]
  /\ cancelled' = [cancelled EXCEPT ![sessions[n]] = TRUE]
  /\ UNCHANGED <<pc, conn, streams, reg, bus, sessions, bare>>

\* A DELETE that finds no row answers 404 and changes nothing.

-----------------------------------------------------------------------------

Callback(c) ==
  \/ OnPublishStarted(c) \/ OnPublishInsert(c) \/ OnPublishDeclined(c) \/ Register(c)
  \/ UnpublishRemove(c) \/ UnpublishStop(c) \/ UnpublishDropVideo(c) \/ UnpublishDropAudio(c)
  \/ Deregister(c)

Event(c) ==
  \/ ConnectionRequested(c) \/ Respond(c) \/ Written(c)
  \/ \E n \in Names :
       \/ PublishStreamRequested(c, n) \/ PublishStreamFinished(c, n) \/ CuePoint(c, n)
       \/ \E t \in Media : SequenceHeader(c, n, t) \/ Frame(c, n, t)

Next ==
  \/ \E c \in Conns :
       \/ Accept(c) \/ Event(c) \/ Callback(c)
       \/ LeaveAtOnce(c) \/ ConnectionClosed(c) \/ UnsupportedCodec(c) \/ Rejected(c) \/ Cancelled(c)
  \/ \E n \in Names : StopSession(n)

Spec == Init /\ [][Next]_vars

\* Callbacks run to completion.  The select is biased towards the cancel
\* token, and a batch of events is finite, so a session that keeps coming
\* back to its loop notices a cancellation.  Nothing makes a peer read: a
\* write may take for ever.
FairSpec ==
  /\ Spec
  /\ \A c \in Conns : WF_vars(Callback(c)) /\ SF_vars(Cancelled(c))

-----------------------------------------------------------------------------
(* Properties.                                                             *)

Places ==
  {"new", "loop", "on_publish", "insert", "register", "exit", "closed"} \cup Unpublishing \cup Writing

\* Type invariant of the connections and of the shared maps; a callback in
\* progress has a broadcast.
TypeOK ==
  /\ pc \in [Conns -> Places]
  /\ name \in [Conns -> Names \cup {None}]
  /\ \A c \in Conns :
       pc[c] \in {"accept", "on_publish", "insert", "register"} \cup Unpublishing => name[c] # None
  /\ after \in [Conns -> {"loop", "exit"}]
  /\ app \in [Conns -> BOOLEAN] /\ cancelled \in [Conns -> BOOLEAN]
  /\ key \in [Conns -> Names \cup {None}] /\ guard \in [Conns -> Names \cup {None}]
  /\ pubs \in [Conns -> SUBSET Names]
  /\ asked \in 0..MaxPublish /\ exclusive \in BOOLEAN
  /\ streams \in [Names -> [owner : Conns \cup {None}, init : SUBSET Media]]
  /\ reg \in [Names -> [Tracks -> {"none", "noinit", "init"}]]
  /\ started \in [Names -> Nat] /\ stopped \in [Names -> Nat]
  /\ lastEvent \in [Names -> {"none", "started", "stopped"}]
  /\ sessions \in [Names -> Conns \cup {None}]
  /\ bare \in BOOLEAN

\* on_unpublish drops the broadcasters "so consumer-side drain tasks ... see
\* next_fragment() return None": whichever connections publish, finish, fail
\* or are killed under a name, a video or audio broadcaster outlives its
\* stream only while an on_unpublish is about to drop it.
NoLeakedBroadcaster ==
  \A n \in Names, t \in Media :
    reg[n][t] # "none" =>
      \/ Live(n)
      \/ \E c \in Conns :
           /\ name[c] = n
           /\ pc[c] \in {"stop", "drop_video"} \cup (IF t = "1.mp4" THEN {"drop_audio"} ELSE {})

\* The active-streams gauge and the event bus never see a stop without a
\* start, and a stream in the map is one that was started and not stopped,
\* although a finished publication is torn down again on the way out.
StopsMatchStarts ==
  \A n \in Names : stopped[n] + (IF Live(n) THEN 1 ELSE 0) <= started[n]

\* publish_init precedes every fragment of a broadcaster, also across
\* re-publications, as long as sessions of one name do not overlap ("no
\* sequence header yet").
InitBeforeMedia == exclusive => ~bare

\* When no callback is running, and sessions of one name do not overlap, a bus
\* subscriber's view of a broadcast is the bridge's ("Subscribers on the bus can react without polling").
BusAgreesWithBridge ==
  exclusive /\ (\A c \in Conns : pc[c] \in {"new", "loop", "exit", "closed"} \cup Writing) =>
    \A n \in Names : lastEvent[n] = "started" <=> Live(n)

\* The peer has stopped reading, and the session waits for it to read on.
StuckInWrite(c) == <>[](pc[c] \in Writing)

\* A session that is killed ends ("DELETE ... actually kicks them"), whatever
\* it is doing, except one that stays for ever in a write of a response to a
\* peer that does not read: those writes do not look at the token.
KilledSessionEnds ==
  \A c \in Conns : (cancelled[c] ~> pc[c] = "closed") \/ StuckInWrite(c)

\* The bridge's tables, the registry and the bus tell one story of every name
\* through publications, re-publications, kills and early frames (on_publish,
\* on_video, on_audio, on_unpublish).
BridgeInv ==
  /\ TypeOK
  /\ NoLeakedBroadcaster
  /\ StopsMatchStarts
  /\ InitBeforeMedia
  /\ BusAgreesWithBridge
=============================================================================
