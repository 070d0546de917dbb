---------------------------- MODULE LiveSessions ----------------------------
(***************************************************************************)
(* What the SRT, WHIP and RTSP servers share: the broadcaster registry     *)
(* they publish into, the event bus, and the CLI's inventory of live       *)
(* publisher sessions (crates/lvqr-cli/src/lib.rs), which the admin API    *)
(* lists and through which it disconnects a publisher.                     *)
(*                                                                         *)
(* Each session has a cancellation token, here the session's own name.     *)
(* The inventory is keyed by broadcast name: registering replaces the row  *)
(* whoever it belongs to, and deregistering removes it whoever it belongs  *)
(* to.  None of these three servers ever removes a registry entry.         *)
(***************************************************************************)
EXTENDS FiniteSets

CONSTANTS
  Broadcasts,   \* broadcast names
  None

Video == "0.mp4"
Audio == "1.mp4"
Tracks == {Video, Audio}

VARIABLES
  rows,      \* inventory: broadcast -> session whose token the row holds
  killed,    \* sessions that have still to notice that their token was cancelled
  listening, \* protocols whose listener still accepts
  ready,     \* registry: <<broadcast, track>> that has an init segment
  fed,       \* registry: <<broadcast, track>> that has been given a fragment
  live       \* broadcasts with a fragment since their last BroadcastStopped

inventory == <<rows, killed, listening>>
registry == <<ready, fed>>
shared == <<inventory, registry, live>>

\* Other publishers may have filled some tracks before.
SharedInit(protocols, filled) ==
  /\ rows = [b \in Broadcasts |-> None]
  /\ killed = {}
  /\ listening = protocols
  /\ ready = filled /\ fed = filled /\ live = {}

SharedTypeOK(sessions, protocols) ==
  /\ rows \in [Broadcasts -> sessions \cup {None}]
  /\ killed \subseteq sessions
  /\ listening \subseteq protocols
  /\ ready \subseteq Broadcasts \X Tracks
  /\ fed \subseteq Broadcasts \X Tracks
  /\ live \subseteq Broadcasts
-----------------------------------------------------------------------------
(* The ingest helpers of crates/lvqr-ingest/src/dispatch.rs. *)

publish_init(b, t) == ready' = ready \cup {<<b, t>>}

publish_fragment(b, t) ==
  /\ fed' = fed \cup {<<b, t>>}
  /\ live' = live \cup {b}

BroadcastStopped(names) == live' = live \ names
-----------------------------------------------------------------------------
(* The inventory and the admin API. *)

register(b, s) == rows' = [rows EXCEPT ![b] = s]
deregister(names) == rows' = [b \in Broadcasts |-> IF b \in names THEN None ELSE rows[b]]

\* A task that ends takes its token with it.
DropToken(s) == killed' = killed \ {s}

\* DELETE /api/v1/broadcasts/{name}: the row stays until the session removes it.
StopBroadcast(b) ==
  /\ rows[b] # None /\ rows[b] \notin killed
  /\ killed' = killed \cup {rows[b]}
  /\ UNCHANGED <<rows, listening, registry, live>>

\* DELETE /api/v1/ingest/{protocol}: the listener's token is the parent of
\* the tokens of the sessions it accepted.
StopListener(protocol, children) ==
  /\ protocol \in listening
  /\ listening' = listening \ {protocol}
  /\ killed' = killed \cup children
  /\ UNCHANGED <<rows, registry, live>>
=============================================================================
