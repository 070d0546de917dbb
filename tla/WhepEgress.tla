----------------------------- MODULE WhepEgress -----------------------------
(***************************************************************************)
(* The WHEP server (crates/lvqr-whep): the offer handler that seeds a new  *)
(* session from the server's caches and then lists it (router.rs), the     *)
(* observer through which a publisher fills the caches and fans out to the *)
(* listed sessions (server.rs), and the poll loop of each session with its *)
(* message channel (str0m_backend.rs).                                     *)
(*                                                                         *)
(* Three kinds of message matter: the audio configuration, the video       *)
(* parameter sets and a keyframe.  Publications are numbered, keyframes    *)
(* too; 0 stands for none.  A publication is out of band (RTMP: parameter  *)
(* sets in a configuration that precedes its keyframes) or in band (WHIP:  *)
(* each keyframe carries its own).  Inter frames, Opus frames and trickled *)
(* candidates pass through and change none of this state.                  *)
(***************************************************************************)
EXTENDS Naturals, Sequences

CONSTANTS
  Viewers,       \* session ids
  MaxGen,        \* bound: publications of the broadcast
  MaxKeys,       \* bound: keyframes
  MaxConfigs     \* bound: configurations announced

ASSUME WhepAssumption == {MaxGen, MaxKeys, MaxConfigs} \subseteq Nat \ {0}

VARIABLES
  factory,     \* was the answerer built with an AAC-to-Opus factory
  source,      \* publisher: publication, is it in band, has it announced its parameter sets
  fan,         \* the observer call in progress: its message and the sessions left to visit
  cache,       \* audio_configs, video_param_sets, video_keyframes of the broadcast
  sent,        \* keyframes and configurations published so far
  sessions,    \* sessions listed in WhepState
  offer,       \* viewer -> where its offer is
  queue,       \* viewer -> the SessionMsg channel
  loop,        \* viewer -> its poll loop: off, running or ended
  ctx,         \* viewer -> SessionCtx
  raced,       \* history: kinds published between the seed and the listing of a session, and not
               \* received since
  wire         \* history: the last keyframe written for a viewer

whep == <<factory, source, fan, cache, sent, sessions, offer, queue, loop, ctx, raced, wire>>

Kinds == {"audio", "params", "key"}
Gens == 0..MaxGen
Keyframe(n, g, band) == [n |-> n, gen |-> g, inband |-> band]
NoKey == Keyframe(0, 0, FALSE)
Keyframes == [n : 0..MaxKeys, gen : Gens, inband : BOOLEAN]
NothingKnown == [audio |-> 0, params |-> 0, key |-> NoKey]
NewCtx == [known |-> NothingKnown, encoder |-> 0, connected |-> FALSE, video |-> TRUE, replayed |-> FALSE]
Quiet == [kind |-> "none", todo |-> {}]

WhepInit ==
  /\ factory \in BOOLEAN
  /\ source = [gen |-> 0, inband |-> FALSE, announced |-> FALSE]
  /\ fan = Quiet /\ cache = NothingKnown
  /\ sent = [key |-> 0, config |-> 0]
  /\ sessions = {}
  /\ offer = [v \in Viewers |-> "none"]
  /\ queue = [v \in Viewers |-> <<>>]
  /\ loop = [v \in Viewers |-> "off"]
  /\ ctx = [v \in Viewers |-> NewCtx]
  /\ raced = [v \in Viewers |-> {}]
  /\ wire = [v \in Viewers |-> [key |-> NoKey, params |-> 0, excused |-> FALSE]]

-----------------------------------------------------------------------------
(* The publisher's side.                                                   *)

\* A publication begins; the caches of the broadcast keep what they hold.
Publication ==
  /\ fan = Quiet /\ source.gen < MaxGen
  /\ \E band \in BOOLEAN :
       source' = [gen |-> source.gen + 1, inband |-> band, announced |-> FALSE]
  /\ UNCHANGED <<fan, cache, sent, sessions, offer, queue, loop, ctx, raced, wire>>

\* Offers that have read kind k from the cache but have not listed their session.
PastSeed(k) ==
  {v \in Viewers : offer[v] \in CASE k = "audio" -> {"params", "key", "list"}
                                  [] k = "params" -> {"key", "list"}
                                  [] k = "key" -> {"list"}}

\* The observer stores the message, then begins its walk over the sessions.
Observe(k, what) ==
  /\ fan = Quiet
  /\ cache' = [cache EXCEPT ![k] = what]
  /\ fan' = IF sessions = {} THEN Quiet ELSE [kind |-> k, todo |-> sessions]
  /\ raced' = [v \in Viewers |-> IF v \in PastSeed(k) THEN raced[v] \cup {k} ELSE raced[v]]
  /\ UNCHANGED <<sessions, offer, queue, loop, ctx, wire>>

on_audio_config ==
  /\ source.gen > 0 /\ sent.config < MaxConfigs
  /\ sent' = [sent EXCEPT !.config = @ + 1]
  /\ Observe("audio", source.gen)
  /\ UNCHANGED source

on_video_config ==
  /\ source.gen > 0 /\ ~source.inband /\ sent.config < MaxConfigs
  /\ sent' = [sent EXCEPT !.config = @ + 1]
  /\ source' = [source EXCEPT !.announced = TRUE]
  /\ Observe("params", source.gen)

on_raw_sample ==
  /\ source.gen > 0 /\ (source.inband \/ source.announced) /\ sent.key < MaxKeys
  /\ sent' = [sent EXCEPT !.key = @ + 1]
  /\ Observe("key", Keyframe(sent.key + 1, source.gen, source.inband))
  /\ UNCHANGED source

\* mutant: a session is skipped while its channel holds a message
DeliverIfEmpty(v, k) ==
  queue' = [queue EXCEPT ![v] = IF loop[v] = "run" /\ @ = <<>>
                                  THEN Append(@, [kind |-> k, what |-> cache[k]]) ELSE @]
\* A message for a session whose loop has ended is lost.
Deliver(v, k) ==
  queue' = [queue EXCEPT ![v] = IF loop[v] = "run" THEN Append(@, [kind |-> k, what |-> cache[k]]) ELSE @]

\* The walk visits one session; one that was removed meanwhile is not there.
FanOut(v) ==
  /\ v \in fan.todo
  /\ IF v \in sessions
       THEN Deliver(v, fan.kind)
       ELSE UNCHANGED queue
  /\ fan' = IF fan.todo = {v} THEN Quiet ELSE [fan EXCEPT !.todo = @ \ {v}]
  /\ UNCHANGED <<source, cache, sent, sessions, offer, loop, ctx, raced, wire>>

-----------------------------------------------------------------------------
(* The viewer's requests.                                                  *)

\* Refused if the cached audio is AAC and nothing can turn it into Opus.
Serveable == cache.audio # 0 => factory

\* create_session: the loop runs and has negotiated video or not.
create_session(v) ==
  /\ offer[v] = "none" /\ Serveable
  /\ \E video \in BOOLEAN : ctx' = [ctx EXCEPT ![v].video = video]
  /\ loop' = [loop EXCEPT ![v] = "run"]
  /\ offer' = [offer EXCEPT ![v] = "audio"]
  /\ UNCHANGED <<source, fan, cache, sent, sessions, queue, raced, wire>>

Present(k) == IF k = "key" THEN cache.key # NoKey ELSE cache[k] # 0

Seed(v, k, next) ==
  /\ offer[v] = k
  /\ IF Present(k) THEN Deliver(v, k) ELSE UNCHANGED queue
  /\ offer' = [offer EXCEPT ![v] = next]
  /\ UNCHANGED <<source, fan, cache, sent, sessions, loop, ctx, raced, wire>>

SeedAudio(v) == Seed(v, "audio", "params")

\* mutant: parameter sets are not replayed to a new session
SeedParamsNot(v) ==
  /\ offer[v] = "params" /\ offer' = [offer EXCEPT ![v] = "key"]
  /\ UNCHANGED <<source, fan, cache, sent, sessions, queue, loop, ctx, raced, wire>>
SeedParams(v) == Seed(v, "params", "key")

SeedKey(v) == Seed(v, "key", "list")

\* The session is listed and the answer goes out.  A walk in progress may or
\* may not come to it.
List(v) ==
  /\ offer[v] = "list"
  /\ sessions' = sessions \cup {v}
  /\ offer' = [offer EXCEPT ![v] = "answered"]
  /\ \/ UNCHANGED fan
     \/ fan.todo # {} /\ fan' = [fan EXCEPT !.todo = @ \cup {v}]
  /\ UNCHANGED <<source, cache, sent, queue, loop, ctx, raced, wire>>

\* DELETE drops the handle, and with it the sender of the channel.
handle_terminate(v) ==
  /\ v \in sessions
  /\ sessions' = sessions \ {v}
  /\ offer' = [offer EXCEPT ![v] = "deleted"]
  /\ UNCHANGED <<source, fan, cache, sent, queue, loop, ctx, raced, wire>>

-----------------------------------------------------------------------------
(* The poll loop.  Its select is biased: shutdown, messages, the socket.   *)

Ready(v) == loop[v] = "run" /\ offer[v] # "deleted"

\* mutant: shutdown is polled after the channel and the socket
ShutdownWhenIdle(v) ==
  /\ loop[v] = "run" /\ offer[v] = "deleted" /\ queue[v] = <<>> /\ ~ctx[v].connected
  /\ loop' = [loop EXCEPT ![v] = "ended"]
  /\ UNCHANGED <<source, fan, cache, sent, sessions, offer, queue, ctx, raced, wire>>
Shutdown(v) ==
  /\ loop[v] = "run" /\ offer[v] = "deleted"
  /\ loop' = [loop EXCEPT ![v] = "ended"]
  /\ UNCHANGED <<source, fan, cache, sent, sessions, offer, queue, ctx, raced, wire>>

\* write_sample: the parameter sets the session knows go before a keyframe
\* that has none of its own.
Written(v, key) ==
  [key |-> key, params |-> IF key.inband THEN key.gen ELSE ctx[v].known.params,
   excused |-> "params" \in raced[v]]
Writable(v) == ctx[v].connected /\ ctx[v].video

\* One message: remembered first, and a keyframe then written.
Message(v) ==
  /\ Ready(v) /\ queue[v] # <<>>
  /\ LET m == Head(queue[v]) IN
       /\ ctx' = [ctx EXCEPT ![v].known[m.kind] = m.what]
       /\ wire' = IF m.kind = "key" /\ Writable(v) THEN [wire EXCEPT ![v] = Written(v, m.what)] ELSE wire
       /\ raced' = IF m.what = cache[m.kind] THEN [raced EXCEPT ![v] = @ \ {m.kind}] ELSE raced
  /\ queue' = [queue EXCEPT ![v] = Tail(@)]
  /\ UNCHANGED <<source, fan, cache, sent, sessions, offer, loop>>

\* The first AAC sample after the configuration builds the encoder, once.
Aac(v) ==
  /\ Ready(v) /\ v \in sessions /\ queue[v] = <<>>
  /\ factory /\ ctx[v].encoder = 0 /\ ctx[v].known.audio # 0
  /\ ctx' = [ctx EXCEPT ![v].encoder = ctx[v].known.audio]
  /\ UNCHANGED <<source, fan, cache, sent, sessions, offer, queue, loop, raced, wire>>

FromSocket(v) == Ready(v) /\ queue[v] = <<>>

\* ICE and DTLS need the answer.
Connected(v) ==
  /\ FromSocket(v) /\ offer[v] = "answered" /\ ~ctx[v].connected
  /\ ctx' = [ctx EXCEPT ![v].connected = TRUE]
  /\ UNCHANGED <<source, fan, cache, sent, sessions, offer, queue, loop, raced, wire>>

\* A PLI or FIR replays the cached keyframe, unless one was replayed just now.
replay_keyframe_for_pli(v) ==
  /\ FromSocket(v) /\ ctx[v].connected
  /\ ctx[v].known.key # NoKey /\ ~ctx[v].replayed /\ Writable(v)
  /\ wire' = [wire EXCEPT ![v] = Written(v, ctx[v].known.key)]
  /\ ctx' = [ctx EXCEPT ![v].replayed = TRUE]
  /\ UNCHANGED <<source, fan, cache, sent, sessions, offer, queue, loop, raced>>

\* MIN_KEYFRAME_REPLAY_INTERVAL has passed.
ReplayInterval(v) ==
  /\ ctx[v].replayed
  /\ ctx' = [ctx EXCEPT ![v].replayed = FALSE]
  /\ UNCHANGED <<source, fan, cache, sent, sessions, offer, queue, loop, raced, wire>>

\* ICE disconnected or an error: the loop ends, its session stays listed.
Disconnected(v) ==
  /\ FromSocket(v) /\ offer[v] = "answered"
  /\ loop' = [loop EXCEPT ![v] = "ended"]
  /\ UNCHANGED <<source, fan, cache, sent, sessions, offer, queue, ctx, raced, wire>>

PollLoop(v) ==
  \/ Shutdown(v) \/ Message(v) \/ Aac(v) \/ Connected(v)
  \/ replay_keyframe_for_pli(v) \/ Disconnected(v)

WhepNext ==
  /\ \/ Publication \/ on_audio_config \/ on_video_config \/ on_raw_sample
     \/ \E v \in Viewers :
          \/ FanOut(v)
          \/ create_session(v) \/ SeedAudio(v) \/ SeedParams(v) \/ SeedKey(v) \/ List(v)
          \/ handle_terminate(v)
          \/ PollLoop(v) \/ ReplayInterval(v)
  /\ UNCHANGED factory

-----------------------------------------------------------------------------
(* Properties.                                                             *)

WhepTypeOK ==
  /\ factory \in BOOLEAN /\ source \in [gen : Gens, inband : BOOLEAN, announced : BOOLEAN]
  /\ fan.kind \in Kinds \cup {"none"} /\ fan.todo \subseteq Viewers
  /\ cache \in [audio : Gens, params : Gens, key : Keyframes]
  /\ sent \in [key : 0..MaxKeys, config : 0..MaxConfigs]
  /\ sessions \subseteq Viewers
  /\ offer \in [Viewers -> Kinds \cup {"none", "list", "answered", "deleted"}]
  /\ loop \in [Viewers -> {"off", "run", "ended"}]
  /\ \A v \in Viewers : \A i \in DOMAIN queue[v] : queue[v][i].kind \in Kinds
  /\ ctx \in [Viewers -> [known : [audio : Gens, params : Gens, key : Keyframes], encoder : Gens,
                          connected : BOOLEAN, video : BOOLEAN, replayed : BOOLEAN]]
  /\ raced \in [Viewers -> SUBSET Kinds]
  /\ wire \in [Viewers -> [key : Keyframes, params : Gens, excused : BOOLEAN]]

\* A listed session knows what the server's caches hold, once the observer is
\* done and the channel is empty, whatever the order of its offer and the
\* publisher's messages ("a subscriber that joined after publish-start still
\* gets the AudioSpecificConfig"): except for a message that was published
\* after the offer had read its kind and before the session was listed.
SessionInStep ==
  fan = Quiet =>
    \A v \in sessions, k \in Kinds :
      loop[v] = "run" /\ queue[v] = <<>> /\ k \notin raced[v] => ctx[v].known[k] = cache[k]

\* No keyframe goes out without parameter sets, or with those of an earlier
\* publication ("A WebRTC decoder needs the parameter sets in-band ahead of
\* the IDR or it cannot initialize"), be it live, seeded or replayed.
KeyframeDecodable ==
  \A v \in Viewers : wire[v].params >= wire[v].key.gen \/ wire[v].excused

\* A session that is deleted ends, however busy its publisher and its peer
\* keep the loop ("the task's select! sees either the shutdown resolve or the
\* sample channel return None and exits").
DeletedSessionEnds == \A v \in Viewers : offer[v] = "deleted" ~> loop[v] = "ended"

\* Sessions are well-typed, in step with the server's caches, and never send a
\* keyframe the peer cannot decode.
WhepInv == WhepTypeOK /\ SessionInStep /\ KeyframeDecodable
=============================================================================
