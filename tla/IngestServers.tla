--------------------------- MODULE IngestServers ----------------------------
(***************************************************************************)
(* The SRT and WHIP servers side by side, publishing into one registry     *)
(* and listed in one inventory, with an operator who disconnects           *)
(* publishers and closes the SRT listener at any time.  WHIP sessions have *)
(* a token of their own that no listener is the parent of.  The demuxer of *)
(* an SRT connection is looked at by itself, on one that stays open.       *)
(***************************************************************************)
EXTENDS SrtIngest, WhipIngest

\* A connection of one server is not a session of the other.
ASSUME SessionsAssumption == SrtConns \cap WhipSessions = {}

VARIABLE part    \* what is explored: "servers" or "demuxer"

servers == <<srt, whip, streams, handles, crowded, shared>>
vars == <<servers, ts, part>>
whipVars == <<whip, streams, handles, crowded>>

Init ==
  /\ SharedInit({"srt"}, {}) /\ SrtInit /\ WhipInit /\ TsInit
  /\ part \in {"servers", "demuxer"} /\ (part = "servers" => mux.sends = "video")

Srt == \E c \in SrtConns : SrtNext(c) /\ UNCHANGED whipVars
Whip == \E s \in WhipSessions : WhipNext(s) /\ UNCHANGED srt
Admin ==
  /\ \/ \E b \in Broadcasts : StopBroadcast(b)
     \/ StopListener("srt", SrtOpen)
  /\ UNCHANGED <<srt, whipVars>>

Next ==
  /\ \/ part = "servers" /\ (Srt \/ Whip \/ Admin) /\ UNCHANGED ts
     \/ part = "demuxer" /\ TsNext /\ UNCHANGED servers
  /\ UNCHANGED part

Fairness ==
  /\ \A c \in SrtConns : SrtFairness(c)
  /\ \A s \in WhipSessions : WhipFairness(s)

Spec == Init /\ [][Next]_vars /\ Fairness
-----------------------------------------------------------------------------
Sessions == SrtConns \cup WhipSessions
Open == SrtOpen \cup WhipOpen
NameOf(s) == IF s \in SrtConns THEN srt[s].name ELSE whip[s].name

TypeOK == SharedTypeOK(Sessions, {"srt"}) /\ SrtTypeOK /\ WhipTypeOK

\* The inventory never shows a session that is over, whichever sessions
\* replaced and removed one another's rows: what the admin API lists is
\* there to be stopped.
RowsAreOpen == \A b \in Broadcasts : rows[b] # None => rows[b] \in Open /\ NameOf(rows[b]) = b

\* The bridge keeps a stream only while a session that will remove it is
\* running, although any session of the name may have made it and any other
\* may have removed it first.
NoOrphanStream ==
  \A b \in Broadcasts : streams[b] # {} => \E s \in WhipActive : whip[s].name = b

\* Consumers that meet a fragment find an init segment.  A name two WHIP
\* sessions publish at once is excepted: the second one sees the audio track
\* before the first one has published its init segment.
MediaHasInit == \A m \in fed : m \in ready \/ (m[2] = Audio /\ m[1] \in crowded)

\* When the last session of a name is over its stop has been announced and
\* no fragment came after it, so playlists are finalised.  Again a name two
\* WHIP sessions shared is excepted: one may publish what it had taken in
\* hand when the other one left, and then find no stream to announce.
StopIsLast ==
  \A b \in Broadcasts \ crowded : b \in live => \E s \in Open : NameOf(s) = b

\* A session the operator stopped, or whose listener was closed, ends and
\* leaves the inventory, whatever it is doing and however much its
\* publisher still sends.
KickEnds == <>[](killed \cap Open = {})

\* The inventory, the bridge, the registry and the bus agree about every name,
\* whichever SRT and WHIP sessions share, replace and leave it.
SessionsInv ==
  /\ TypeOK
  /\ RowsAreOpen
  /\ NoOrphanStream
  /\ MediaHasInit
  /\ StopIsLast

\* From pieces of a transport stream, with losses, to whole media and cues.
DemuxInv == TsTypeOK /\ EveryPacketTaken /\ PesSurvives /\ CuesSound
=============================================================================
