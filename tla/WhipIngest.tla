----------------------------- MODULE WhipIngest -----------------------------
(***************************************************************************)
(* WHIP ingest: the HTTP handlers (crates/lvqr-whip/src/router.rs), the    *)
(* poll loop of each WebRTC session (str0m_backend.rs) and the bridge all  *)
(* sessions share (bridge.rs).                                             *)
(*                                                                         *)
(* The bridge keeps one stream per broadcast name.  A sample is handled in *)
(* steps, because the bridge looks the stream up, releases it, and only    *)
(* then publishes into the registry; another session of the same name may  *)
(* come in between.                                                        *)
(***************************************************************************)
EXTENDS LiveSessions

CONSTANT WhipSessions

VARIABLES
  whip,      \* session -> its poll task
  streams,   \* bridge: broadcast -> tracks of its BroadcastState, {} for none
  handles,   \* sessions in the HTTP server's map
  crowded    \* history: names two sessions were open for at the same time

NoWhip == [at |-> "idle", name |-> None]

WhipInit ==
  /\ whip = [s \in WhipSessions |-> NoWhip]
  /\ streams = [b \in Broadcasts |-> {}]
  /\ handles = {}
  /\ crowded = {}

WhipAt == {"idle", "poll", "init", "insert", "push", "publish",
           "audio_init", "audio_push", "audio_publish", "left", "gone"}

WhipTypeOK ==
  /\ whip \in [WhipSessions -> [at : WhipAt, name : Broadcasts \cup {None}]]
  /\ streams \in [Broadcasts -> SUBSET Tracks]
  /\ handles \subseteq WhipSessions
  /\ crowded \subseteq Broadcasts

WhipOpen == {s \in WhipSessions : whip[s].at \notin {"idle", "gone"}}
\* Sessions that still use the bridge: on_disconnect lies ahead of them.
WhipActive == {s \in WhipOpen : whip[s].at # "left"}

Goto(s, where) == whip' = [whip EXCEPT ![s].at = where]
-----------------------------------------------------------------------------
(* HTTP: POST and DELETE.  A PATCH only hands over ICE candidates. *)

\* handle_offer, for an offer that auth, the codec gate and str0m admit.
WhipOffer(s, b) ==
  /\ whip[s].at = "idle"
  /\ register(b, s)
  /\ whip' = [whip EXCEPT ![s] = [at |-> "poll", name |-> b]]
  /\ handles' = handles \cup {s}
  /\ crowded' = IF \E r \in WhipOpen : whip[r].name = b THEN crowded \cup {b} ELSE crowded
  /\ UNCHANGED <<streams, killed, listening, registry, live>>

\* handle_terminate: dropping the handle cancels the token.
WhipTerminate(s) ==
  /\ s \in handles
  /\ handles' = handles \ {s}
  /\ killed' = killed \cup ({s} \cap WhipOpen)
  /\ UNCHANGED <<whip, streams, crowded, rows, listening, registry, live>>
-----------------------------------------------------------------------------
(* on_sample: ensure_initialized, then push_sample. *)

\* A video sample arrives.  Without a stream only a keyframe that carries
\* its parameter sets goes on; anything else is dropped.
WhipSample(s) ==
  /\ whip[s].at = "poll"
  /\ Goto(s, IF streams[whip[s].name] # {} THEN "push" ELSE "init")
  /\ UNCHANGED <<streams, handles, crowded, shared>>

\* The origin creates broadcast and track; the init segment is published.
WhipCreate(s) ==
  /\ whip[s].at = "init"
  /\ publish_init(whip[s].name, Video)
  /\ Goto(s, "insert")
  /\ UNCHANGED <<streams, handles, crowded, inventory, fed, live>>

\* The origin refuses the broadcast or the track: the sample is dropped.
WhipRefused(s) ==
  /\ whip[s].at = "init"
  /\ Goto(s, "poll")
  /\ UNCHANGED <<streams, handles, crowded, shared>>

\* streams.insert replaces what a session of the same name put there.
WhipInsert(s) ==
  /\ whip[s].at = "insert"
  /\ streams' = [streams EXCEPT ![whip[s].name] = {Video}]
  /\ Goto(s, "push")
  /\ UNCHANGED <<handles, crowded, shared>>

\* push_sample looks the stream up again: it may be gone.
WhipPush(s) ==
  /\ whip[s].at = "push"
  /\ Goto(s, IF streams[whip[s].name] # {} THEN "publish" ELSE "poll")
  /\ UNCHANGED <<streams, handles, crowded, shared>>

WhipPublish(s) ==
  /\ whip[s].at = "publish"
  /\ publish_fragment(whip[s].name, Video)
  /\ Goto(s, "poll")
  /\ UNCHANGED <<streams, handles, crowded, inventory, ready>>
-----------------------------------------------------------------------------
(* on_audio_sample: ensure_audio_initialized, then push_audio_sample. *)

\* An Opus frame: without a stream it is dropped; the first one makes the
\* track and releases the stream before the init segment is published.
WhipAudio(s) ==
  /\ whip[s].at = "poll"
  /\ streams[whip[s].name] # {}
  /\ streams' = [streams EXCEPT ![whip[s].name] = @ \cup {Audio}]
  /\ Goto(s, IF Audio \in streams[whip[s].name] THEN "audio_push" ELSE "audio_init")
  /\ UNCHANGED <<handles, crowded, shared>>

WhipAudioInit(s) ==
  /\ whip[s].at = "audio_init"
  /\ publish_init(whip[s].name, Audio)
  /\ Goto(s, "audio_push")
  /\ UNCHANGED <<streams, handles, crowded, inventory, fed, live>>

WhipAudioPush(s) ==
  /\ whip[s].at = "audio_push"
  /\ Goto(s, IF Audio \in streams[whip[s].name] THEN "audio_publish" ELSE "poll")
  /\ UNCHANGED <<streams, handles, crowded, shared>>

WhipAudioPublish(s) ==
  /\ whip[s].at = "audio_publish"
  /\ publish_fragment(whip[s].name, Audio)
  /\ Goto(s, "poll")
  /\ UNCHANGED <<streams, handles, crowded, inventory, ready>>
-----------------------------------------------------------------------------
(* The end of a session: the poll loop returns, on_disconnect, deregister. *)

\* mutant: the stream is left to the next session of the name
WhipExitKeep(s) ==
  /\ whip[s].at = "poll"
  /\ BroadcastStopped({whip[s].name})
  /\ Goto(s, "left")
  /\ UNCHANGED <<streams, handles, crowded, inventory, registry>>

\* on_disconnect: only the session that finds the stream announces the stop.
WhipExit(s) ==
  /\ whip[s].at = "poll"
  /\ IF streams[whip[s].name] # {} THEN BroadcastStopped({whip[s].name}) ELSE UNCHANGED live
  /\ streams' = [streams EXCEPT ![whip[s].name] = {}]
  /\ Goto(s, "left")
  /\ UNCHANGED <<handles, crowded, inventory, registry>>

WhipDisconnected(s) == WhipExit(s)                     \* ICE or socket failure

\* mutant: the token is looked at before the first sample only
WhipCancelledEarly(s) == s \in killed /\ streams[whip[s].name] = {} /\ WhipExit(s)

WhipCancelled(s) == s \in killed /\ WhipExit(s)

\* mutant: the row stays
WhipLeaveRow(s) ==
  /\ whip[s].at = "left"
  /\ Goto(s, "gone")
  /\ UNCHANGED <<streams, handles, crowded, shared>>

WhipDeregister(s) ==
  /\ whip[s].at = "left"
  /\ deregister({whip[s].name})
  /\ whip' = [whip EXCEPT ![s] = [NoWhip EXCEPT !.at = "gone"]]
  /\ DropToken(s)
  /\ UNCHANGED <<streams, handles, crowded, listening, registry, live>>
-----------------------------------------------------------------------------
WhipStep(s) ==
  \/ WhipCreate(s) \/ WhipInsert(s) \/ WhipPush(s) \/ WhipPublish(s)
  \/ WhipAudioInit(s) \/ WhipAudioPush(s) \/ WhipAudioPublish(s)
  \/ WhipDeregister(s)

WhipNext(s) ==
  \/ \E b \in Broadcasts : WhipOffer(s, b)
  \/ WhipTerminate(s)
  \/ WhipSample(s) \/ WhipAudio(s) \/ WhipRefused(s)
  \/ WhipStep(s)
  \/ WhipDisconnected(s)
  \/ WhipCancelled(s)

\* The task runs on, and every pass of the poll loop looks at the token
\* first, however many samples the session still receives.
WhipFairness(s) ==
  /\ WF_<<whip, streams, shared>>(WhipStep(s))
  /\ SF_<<whip, streams, shared>>(WhipCancelled(s))
=============================================================================
