----------------------------- MODULE WsSessions -----------------------------
(***************************************************************************)
(* WebSocket sessions of crates/lvqr-cli/src/ws.rs and the recorder of     *)
(* crates/lvqr-record/src/recorder.rs that the event bus starts.           *)
(*                                                                         *)
(* Ingest sessions publish one name, one after the other, each as a MoQ    *)
(* broadcast of its own; a relay session and the recorder subscribe to     *)
(* whichever broadcast the name has when they look it up.  A recording is  *)
(* started by an event, which comes over a bounded channel and before the  *)
(* tracks of the broadcast exist.                                          *)
(*                                                                         *)
(* The video track stands for both; a frame is its group and what it is,   *)
(* an init segment or media.                                               *)
(***************************************************************************)
EXTENDS Naturals, Sequences

CONSTANTS
  Pubs,       \* publications of the name, 1..n
  MaxFrames,  \* bound: frames of one publication
  Room,       \* capacity of the relay's channel (64)
  BusRoom     \* capacity of the event bus

ASSUME WsAssumption ==
  /\ Pubs \subseteq Nat \ {0} /\ MaxFrames \in Nat
  /\ {Room, BusRoom} \subseteq Nat \ {0}

VARIABLES
  origin,    \* the publication that the name resolves to
  track,     \* publication -> frames of its track, in order
  ingest,    \* the ingest session
  bus,       \* what the recorder has not taken off the bus, and has it lost any
  recorder,  \* is the name active; publication -> its recording
  viewer,    \* the relay session: where it is, what it relays, its mesh peer, its client
  relay,     \* relay_track: where it is and how far it has read
  chan,      \* from relay_track to the session
  got        \* history: frames the client was sent

ws == <<origin, track, ingest, bus, recorder, viewer, relay, chan, got>>
relayRest == <<origin, track, ingest, bus, recorder>>
recordRest == <<origin, track, ingest, viewer, relay, chan, got>>
ingestRest == <<recorder, viewer, relay, chan, got>>

NoOrigin == 0
Off(p) == [pub |-> p, at |-> "off", config |-> FALSE, open |-> FALSE]
NoRecording == [at |-> "off", pos |-> 0, init |-> FALSE, segments |-> 0]
NoReader == [at |-> "off", pos |-> 0]

WsInit ==
  /\ origin = NoOrigin
  /\ track = [p \in Pubs |-> <<>>]
  /\ ingest = Off(0)
  /\ bus = [events |-> <<>>, missed |-> FALSE]
  /\ recorder = [active |-> FALSE, of |-> [p \in Pubs |-> NoRecording]]
  /\ viewer = [at |-> "off", pub |-> 0, peer |-> FALSE, client |-> TRUE]
  /\ relay = NoReader
  /\ chan = <<>> /\ got = <<>>

\* EventBus::emit: a receiver that is full loses its oldest event.
Emit(event) ==
  bus' = IF Len(bus.events) < BusRoom THEN [bus EXCEPT !.events = Append(@, event)]
         ELSE [events |-> Append(Tail(bus.events), event), missed |-> TRUE]
-----------------------------------------------------------------------------
(* ws_ingest_session *)

IngestCreate ==
  /\ ingest.at = "off" /\ ingest.pub + 1 \in Pubs
  /\ ingest' = [Off(ingest.pub + 1) EXCEPT !.at = "created"]
  /\ origin' = ingest.pub + 1
  /\ UNCHANGED <<track, bus, ingestRest>>

\* the broadcast is announced before its tracks exist
IngestStarted ==
  /\ ingest.at = "created"
  /\ Emit("started")
  /\ ingest' = [ingest EXCEPT !.at = "tracks"]
  /\ UNCHANGED <<origin, track, ingestRest>>

IngestReady ==
  /\ ingest.at = "tracks"
  /\ ingest' = [ingest EXCEPT !.at = "loop"]
  /\ UNCHANGED <<origin, track, bus, ingestRest>>

Ingesting == ingest.at = "loop" /\ Len(track[ingest.pub]) + 2 <= MaxFrames

Frame(g, kind) == [group |-> g, kind |-> kind]
LastGroup(p) == IF track[p] = <<>> THEN 0 ELSE track[p][Len(track[p])].group
Wrote(frames) == track' = [track EXCEPT ![ingest.pub] = @ \o frames]

\* type 0: the init segment for the keyframes to come
IngestConfig ==
  /\ Ingesting
  /\ ingest' = [ingest EXCEPT !.config = TRUE]
  /\ UNCHANGED <<origin, track, bus, ingestRest>>

\* mutant: a new group is begun without the init segment
IngestKeyframeBare ==
  /\ Ingesting /\ ingest.config
  /\ Wrote(<<Frame(LastGroup(ingest.pub) + 1, "media")>>)
  /\ ingest' = [ingest EXCEPT !.open = TRUE]
  /\ UNCHANGED <<origin, bus, ingestRest>>

\* type 1: a group begins with the init segment
IngestKeyframe ==
  /\ Ingesting /\ ingest.config
  /\ LET g == LastGroup(ingest.pub) + 1 IN Wrote(<<Frame(g, "init"), Frame(g, "media")>>)
  /\ ingest' = [ingest EXCEPT !.open = TRUE]
  /\ UNCHANGED <<origin, bus, ingestRest>>

\* type 2: before the first keyframe there is no group to write to
IngestDelta ==
  /\ Ingesting /\ ingest.config /\ ingest.open
  /\ Wrote(<<Frame(LastGroup(ingest.pub), "media")>>)
  /\ UNCHANGED <<origin, ingest, bus, ingestRest>>

\* the client closes, or its socket fails
IngestStopped ==
  /\ ingest.at = "loop"
  /\ Emit("stopped")
  /\ ingest' = [ingest EXCEPT !.at = "dropping", !.open = FALSE]
  /\ UNCHANGED <<origin, track, ingestRest>>

\* The broadcast is dropped at the end, and when a track cannot be created;
\* then its stop is never announced.
IngestDrop ==
  /\ ingest.at \in {"dropping", "tracks"}
  /\ ingest' = Off(ingest.pub)
  /\ origin' = NoOrigin
  /\ bus' = [bus EXCEPT !.missed = @ \/ ingest.at = "tracks"]
  /\ UNCHANGED <<track, ingestRest>>

WsIngest ==
  \/ IngestCreate \/ IngestStarted \/ IngestReady \/ IngestConfig
  \/ IngestKeyframe \/ IngestDelta \/ IngestStopped \/ IngestDrop
-----------------------------------------------------------------------------
(* A MoQ subscription: it begins with a group, gives the frames in order,  *)
(* and ends or fails once the producer is dropped.                         *)

Ended(p) == origin # p
More(p, pos) == pos < Len(track[p])
Starts(p) == {0} \cup {n \in 1..Len(track[p]) - 1 : track[p][n].group # track[p][n + 1].group}
NoTrackYet(p) == origin = p /\ ingest.at \in {"created", "tracks"}
-----------------------------------------------------------------------------
(* spawn_recordings and the task of each recording *)

NextEvent(event) == bus.events # <<>> /\ Head(bus.events) = event
Received == bus' = [bus EXCEPT !.events = Tail(@)]

\* A name that is active, or resolves to nothing, starts no recording.
RecordStarted ==
  /\ NextEvent("started") /\ Received
  /\ IF recorder.active \/ origin = NoOrigin THEN UNCHANGED recorder
     ELSE recorder' = [active |-> TRUE, of |->
            [recorder.of EXCEPT ![origin] = [NoRecording EXCEPT !.at = "open"]]]
  /\ UNCHANGED recordRest

\* mutant: the name stays active
RecordStoppedKept ==
  /\ NextEvent("stopped") /\ Received
  /\ UNCHANGED <<recorder, recordRest>>

RecordStopped ==
  /\ NextEvent("stopped") /\ Received
  /\ recorder' = [recorder EXCEPT !.active = FALSE]
  /\ UNCHANGED recordRest

RecordSubscribe(p) ==
  /\ recorder.of[p].at = "open" /\ ~NoTrackYet(p)
  /\ \E n \in Starts(p) :
       recorder' = [recorder EXCEPT !.of[p] = [NoRecording EXCEPT !.at = "run", !.pos = n]]
  /\ UNCHANGED <<bus, recordRest>>

\* The recorder was early, before the ingest has made its tracks, or late: the
\* track is skipped for good.
RecordRefused(p) ==
  /\ recorder.of[p].at = "open" /\ (NoTrackYet(p) \/ Ended(p))
  /\ recorder' = [recorder EXCEPT !.of[p].at = IF Ended(p) THEN "late" ELSE "early"]
  /\ UNCHANGED <<bus, recordRest>>

\* The first init segment goes to its own file, any later one is a segment.
RecordFrame(p) ==
  LET r == recorder.of[p] IN
  /\ r.at = "run" /\ More(p, r.pos)
  /\ recorder' = IF ~r.init /\ track[p][r.pos + 1].kind = "init"
                 THEN [recorder EXCEPT !.of[p].pos = @ + 1, !.of[p].init = TRUE]
                 ELSE [recorder EXCEPT !.of[p].pos = @ + 1, !.of[p].segments = @ + 1]
  /\ UNCHANGED <<bus, recordRest>>

RecordEnd(p) ==
  /\ recorder.of[p].at = "run" /\ Ended(p)
  /\ recorder' = [recorder EXCEPT !.of[p].at = "done"]
  /\ UNCHANGED <<bus, recordRest>>

Recording ==
  \/ RecordStarted \/ RecordStopped
  \/ \E p \in Pubs : RecordSubscribe(p) \/ RecordRefused(p) \/ RecordFrame(p) \/ RecordEnd(p)
-----------------------------------------------------------------------------
(* ws_relay_session and its relay_track task *)

\* With the mesh enabled, add_peer may refuse: the session goes on without.  A
\* peer is first sent its assignment.
RelayOpen ==
  /\ viewer.at = "off" /\ origin # NoOrigin
  /\ \E peer \in BOOLEAN :
       viewer' = [viewer EXCEPT !.at = IF peer THEN "assigning" ELSE "joined",
                                !.pub = origin, !.peer = peer]
  /\ UNCHANGED <<relay, chan, got, relayRest>>

RelaySubscribe ==
  /\ viewer.at = "joined" /\ ~NoTrackYet(viewer.pub)
  /\ viewer' = [viewer EXCEPT !.at = "loop"]
  /\ \E n \in Starts(viewer.pub) : relay' = [at |-> "read", pos |-> n]
  /\ UNCHANGED <<chan, got, relayRest>>

\* the early return: the mesh peer is not removed
RelayNoTracks ==
  /\ viewer.at = "joined" /\ (NoTrackYet(viewer.pub) \/ Ended(viewer.pub))
  /\ viewer' = [viewer EXCEPT !.at = "closed"]
  /\ UNCHANGED <<relay, chan, got, relayRest>>

\* select takes a frame that is there also when it has been cancelled
ReadFrame ==
  /\ relay.at = "read" /\ More(viewer.pub, relay.pos)
  /\ relay' = [at |-> "send", pos |-> relay.pos + 1]
  /\ UNCHANGED <<viewer, chan, got, relayRest>>

\* mutant: the channel takes any number of frames
SendFrameUnbounded ==
  /\ relay.at = "send" /\ viewer.at # "closed"
  /\ chan' = Append(chan, track[viewer.pub][relay.pos])
  /\ relay' = [relay EXCEPT !.at = "read"]
  /\ UNCHANGED <<viewer, got, relayRest>>

\* waits for room, without looking at the cancellation
SendFrame ==
  /\ relay.at = "send" /\ viewer.at # "closed" /\ Len(chan) < Room
  /\ chan' = Append(chan, track[viewer.pub][relay.pos])
  /\ relay' = [relay EXCEPT !.at = "read"]
  /\ UNCHANGED <<viewer, got, relayRest>>

\* mutant: a send does not notice that the receiver is gone
RelayDoneReading ==
  /\ relay.at = "read" /\ (viewer.at = "closed" \/ Ended(viewer.pub))
  /\ relay' = [relay EXCEPT !.at = "done"]
  /\ UNCHANGED <<viewer, chan, got, relayRest>>

\* cancelled or at the end of the track; or the receiver is dropped
RelayDone ==
  /\ \/ relay.at = "read" /\ (viewer.at = "closed" \/ Ended(viewer.pub))
     \/ relay.at = "send" /\ viewer.at = "closed"
  /\ relay' = [relay EXCEPT !.at = "done"]
  /\ UNCHANGED <<viewer, chan, got, relayRest>>

\* The arm of rx: the frame is given to socket.send(..).await, which nothing
\* cancels.
ToClient ==
  /\ viewer.at = "loop" /\ chan # <<>>
  /\ viewer' = [viewer EXCEPT !.at = "sending"]
  /\ got' = Append(got, Head(chan)) /\ chan' = Tail(chan)
  /\ UNCHANGED <<relay, relayRest>>

\* The client's side takes the message.
Sent ==
  /\ viewer.client
  /\ \/ viewer.at = "sending" /\ viewer' = [viewer EXCEPT !.at = "loop"]
     \/ viewer.at = "assigning" /\ viewer' = [viewer EXCEPT !.at = "joined"]
  /\ UNCHANGED <<relay, chan, got, relayRest>>

\* The socket is gone: that ends the loop, and is no matter before it.
SendFailed ==
  /\ ~viewer.client
  /\ \/ viewer.at = "sending" /\ viewer' = [viewer EXCEPT !.at = "leaving"]
     \/ viewer.at = "assigning" /\ viewer' = [viewer EXCEPT !.at = "joined"]
  /\ UNCHANGED <<relay, chan, got, relayRest>>

\* the client is gone, or rx has nothing more to give
RelayLeave ==
  /\ viewer.at = "loop" /\ (~viewer.client \/ (relay.at = "done" /\ chan = <<>>))
  /\ viewer' = [viewer EXCEPT !.at = "leaving"]
  /\ UNCHANGED <<relay, chan, got, relayRest>>

RelayClose ==
  /\ viewer.at = "leaving"
  /\ viewer' = [viewer EXCEPT !.at = "closed", !.peer = FALSE]
  /\ chan' = <<>>
  /\ UNCHANGED <<relay, got, relayRest>>

ClientGone ==
  /\ viewer.at \in {"assigning", "loop", "sending"} /\ viewer.client
  /\ viewer' = [viewer EXCEPT !.client = FALSE]
  /\ UNCHANGED <<relay, chan, got, relayRest>>

\* what the session does on its own once it is open, and what its task does
Relaying ==
  \/ RelaySubscribe \/ RelayNoTracks \/ ToClient \/ SendFailed \/ RelayLeave \/ RelayClose
RelayTask == ReadFrame \/ SendFrame \/ RelayDone

Watching == RelayOpen \/ Sent \/ ClientGone \/ Relaying \/ RelayTask
-----------------------------------------------------------------------------
(* Properties *)

ViewerPlaces == {"off", "assigning", "joined", "loop", "sending", "leaving", "closed"}

\* The sessions are well-typed, and neither channel is over its capacity.
WsTypeOK ==
  /\ origin \in Pubs \cup {NoOrigin}
  /\ ingest \in [pub : Pubs \cup {0}, at : {"off", "created", "tracks", "loop", "dropping"},
                 config : BOOLEAN, open : BOOLEAN]
  /\ \A p \in Pubs : Len(track[p]) <= MaxFrames
  /\ bus.missed \in BOOLEAN /\ Len(bus.events) <= BusRoom
  /\ recorder.active \in BOOLEAN
  /\ recorder.of \in [Pubs -> [at : {"off", "open", "early", "late", "run", "done"}, pos : 0..MaxFrames,
                               init : BOOLEAN, segments : 0..MaxFrames]]
  /\ viewer \in [at : ViewerPlaces, pub : Pubs \cup {0}, peer : BOOLEAN, client : BOOLEAN]
  /\ relay \in [at : {"off", "read", "send", "done"}, pos : 0..MaxFrames]
  /\ Len(chan) <= Room

\* Wherever in the track it begins, a recording has its init segment before its
\* first media segment, and a viewer gets one at the head of every group and
\* nowhere else: nothing is lost between the track and the client
\* (ws_ingest_session writes the pair, relay_track and record_track read it).
InitFirst ==
  /\ \A p \in Pubs : recorder.of[p].segments > 0 => recorder.of[p].init
  /\ \A i \in DOMAIN got : got[i].kind = "init" <=> (i = 1 \/ got[i - 1].group # got[i].group)

\* Once the recorder has taken every event, and has lost none, what is live is
\* being recorded or about to be, also when the name was published, stopped and
\* published again in between (spawn_recordings' active set).  The exception is
\* a publication whose recorder asked for the tracks after the announcement and
\* before they were created: it gave up, and although "WS-ingested broadcasts
\* are recorded identically to RTMP-ingested ones" that one is not recorded at
\* all.  A recorder that comes late never gives up on what is live.
LiveIsRecorded ==
  ~bus.missed /\ bus.events = <<>> /\ ingest.at \in {"tracks", "loop"} =>
    recorder.of[origin].at \in {"open", "run", "early"}

\* What a viewer and a recording are given is decodable from its first frame,
\* and what is live goes unrecorded only if its recorder was too early (ws.rs,
\* recorder.rs).
WsInv == WsTypeOK /\ InitFirst /\ LiveIsRecorded

RelayOver == viewer.at = "closed" /\ relay.at \in {"off", "done"}

\* The client is there and does not read.
ClientStalls == <>[](viewer.client /\ viewer.at \in {"assigning", "sending"})

\* A relay session whose client has left ends with its task, also when that
\* waits for room in the channel, and so does one whose publication is over,
\* unless it stays for ever in a send to a client that does not read: nothing
\* cancels that.
RelayEnds ==
  /\ viewer.at # "off" /\ ~viewer.client ~> RelayOver
  /\ (viewer.at # "off" /\ Ended(viewer.pub) ~> RelayOver) \/ ClientStalls
=============================================================================
