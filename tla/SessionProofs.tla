---------------------------- MODULE SessionProofs ----------------------------
(***************************************************************************)
(* Proofs about IngestServers and Playback: for any number of SRT          *)
(* connections, WHIP sessions and broadcast names, the inventory, the WHIP *)
(* bridge, the registry and the bus agree about every name; and, for any   *)
(* number of publications and viewers and for channels and rings of any    *)
(* capacity, the invariants of the DASH server, of the WHEP sessions, of   *)
(* the WebSocket relay and of the recorder.  Each part of Playback has an  *)
(* inductive invariant of its own; Playback takes a step of one part and   *)
(* leaves the others alone.                                                *)
(***************************************************************************)
EXTENDS IngestServers, Playback, TLAPS

-----------------------------------------------------------------------------
(* The SRT and WHIP servers.                                               *)

\* Every session that is open has a name.
Named ==
  /\ \A c \in SrtOpen : srt[c].name \in Broadcasts
  /\ \A s \in WhipOpen : whip[s].name \in Broadcasts

\* Two WHIP sessions of a name have crowded it.
Crowds == \A r, s \in WhipOpen : r # s /\ whip[r].name = whip[s].name => whip[s].name \in crowded

\* An SRT connection has published the init segments it has noted.
SrtReady ==
  \A c \in SrtConns :
    /\ srt[c].at = "idle" => srt[c].init = {}
    /\ \A t \in srt[c].init : <<srt[c].name, t>> \in ready

\* The bridge inserts a stream when its video init segment is published.
VideoReady ==
  /\ \A b \in Broadcasts : streams[b] # {} => <<b, Video>> \in ready
  /\ \A s \in WhipSessions : whip[s].at \in {"insert", "publish"} => <<whip[s].name, Video>> \in ready

\* It adds the audio track before the init segment, which the session that
\* added it is then about to publish.
AudioReady ==
  /\ \A b \in Broadcasts \ crowded : Audio \in streams[b] =>
       \/ <<b, Audio>> \in ready
       \/ \E s \in WhipSessions : whip[s].at = "audio_init" /\ whip[s].name = b
  /\ \A s \in WhipSessions : whip[s].at \in {"audio_push", "audio_publish"} =>
       <<whip[s].name, Audio>> \in ready \/ whip[s].name \in crowded

\* A session about to publish a fragment still has its stream.
StreamHeld ==
  \A s \in WhipSessions :
    whip[s].at \in {"publish", "audio_publish"} /\ whip[s].name \notin crowded => streams[whip[s].name] # {}

\* Somebody who will announce the stop is behind every live name.
StopAhead ==
  \A b \in Broadcasts \ crowded : b \in live =>
    \/ \E c \in SrtConns : srt[c].at = "recv" /\ srt[c].name = b
    \/ streams[b] # {}

\* The inductive invariant.
IngestInd ==
  /\ TypeOK /\ Named /\ Crowds
  /\ RowsAreOpen /\ NoOrphanStream /\ MediaHasInit
  /\ SrtReady /\ VideoReady /\ AudioReady /\ StreamHeld /\ StopAhead
-----------------------------------------------------------------------------
(* What every action leaves of the types.                                  *)

SrtTasks == [at : {"idle", "recv", "stopped", "gone"}, name : Broadcasts \cup {None},
             sets : BOOLEAN, init : SUBSET Tracks]
WhipTasks == [at : WhipAt, name : Broadcasts \cup {None}]

\* The tasks of an open session.
LEMMA SrtTask ==
  ASSUME IngestInd, NEW c \in SrtConns
  PROVE  /\ srt \in [SrtConns -> SrtTasks] /\ srt[c] \in SrtTasks
         /\ srt[c].at \in {"recv", "stopped"} => srt[c].name \in Broadcasts /\ c \in SrtOpen
BY DEF IngestInd, TypeOK, SrtTypeOK, Named, SrtOpen, SrtTasks

LEMMA WhipTask ==
  ASSUME IngestInd, NEW s \in WhipSessions
  PROVE  /\ whip \in [WhipSessions -> WhipTasks] /\ whip[s] \in WhipTasks
         /\ whip[s].at \notin {"idle", "gone"} => whip[s].name \in Broadcasts /\ s \in WhipOpen
BY DEF IngestInd, TypeOK, WhipTypeOK, Named, WhipOpen, WhipTasks

LEMMA IngestIndBegins == Init => IngestInd
<1> SUFFICES ASSUME Init PROVE IngestInd
  OBVIOUS
<1> USE DEF Init, SharedInit, SrtInit, WhipInit, NoSrt, NoWhip
<1>1. TypeOK
  BY DEF TypeOK, SharedTypeOK, SrtTypeOK, WhipTypeOK, Sessions, WhipAt, Tracks
<1>2. Named /\ Crowds /\ RowsAreOpen
  BY DEF Named, Crowds, RowsAreOpen, SrtOpen, WhipOpen
<1>3. NoOrphanStream /\ MediaHasInit /\ SrtReady /\ VideoReady
  BY DEF NoOrphanStream, MediaHasInit, SrtReady, VideoReady
<1>4. AudioReady /\ StreamHeld /\ StopAhead
  BY DEF AudioReady, StreamHeld, StopAhead
<1> QED BY <1>1, <1>2, <1>3, <1>4 DEF IngestInd

-----------------------------------------------------------------------------
(* SRT.                                                                    *)

\* The WHIP sessions and the bridge do not change, and no init segment is
\* taken back.
LEMMA SrtFrame ==
  ASSUME IngestInd, UNCHANGED whipVars, ready \subseteq ready'
  PROVE  /\ WhipTypeOK' /\ WhipOpen' = WhipOpen
         /\ Crowds' /\ NoOrphanStream' /\ StreamHeld' /\ VideoReady' /\ AudioReady'
<1> USE DEF whipVars
<1>1. WhipOpen' = WhipOpen /\ WhipActive' = WhipActive
  BY DEF WhipOpen, WhipActive
<1>2. WhipTypeOK' /\ Crowds' /\ NoOrphanStream' /\ StreamHeld'
  BY <1>1 DEF IngestInd, TypeOK, WhipTypeOK, Crowds, NoOrphanStream, StreamHeld
<1>3. VideoReady' /\ AudioReady'
  BY DEF IngestInd, VideoReady, AudioReady
<1> QED BY <1>1, <1>2, <1>3

LEMMA SrtAcceptStep ==
  ASSUME IngestInd, NEW c \in SrtConns, NEW b \in Broadcasts, SrtAccept(c, b), UNCHANGED whipVars
  PROVE  IngestInd'
<1> USE DEF SrtAccept, register, registry
<1>0. whip' = whip /\ WhipOpen' = WhipOpen /\ streams' = streams /\ crowded' = crowded
  BY SrtFrame DEF whipVars
<1>1. /\ srt' \in [SrtConns -> SrtTasks] /\ srt'[c] = [srt[c] EXCEPT !.at = "recv", !.name = b]
      /\ \A d \in SrtConns \ {c} : srt'[d] = srt[d]
  <2> DEFINE x == [srt[c] EXCEPT !.at = "recv", !.name = b]
  <2>1. srt \in [SrtConns -> SrtTasks] /\ srt[c] \in SrtTasks
    BY SrtTask
  <2>2. x \in SrtTasks
    BY <2>1 DEF SrtTasks
  <2>3. srt' = [srt EXCEPT ![c] = x]
    BY <2>1
  <2> HIDE DEF x
  <2>4. srt' \in [SrtConns -> SrtTasks] /\ srt'[c] = x /\ \A d \in SrtConns \ {c} : srt'[d] = srt[d]
    BY <2>1, <2>2, <2>3
  <2> QED BY <2>4 DEF x
<1>2. /\ srt'[c].at = "recv" /\ srt'[c].name = b /\ srt'[c].init = srt[c].init
      /\ srt[c].at = "idle" /\ srt[c].init = {}
  BY <1>1, SrtTask DEF SrtTasks, IngestInd, SrtReady
<1>3. SrtOpen' = SrtOpen \cup {c}
  BY <1>1, <1>2 DEF SrtOpen
<1>4. ready' = ready /\ fed' = fed /\ live' = live
  OBVIOUS
<1>5. TypeOK'
  BY <1>1, <1>4, SrtFrame DEF IngestInd, TypeOK, SharedTypeOK, SrtTypeOK, Sessions, SrtTasks
<1>6. Named' /\ RowsAreOpen'
  <2>1. Named'
    <3>1. IngestInd => \A d \in SrtOpen : srt[d].name \in Broadcasts
      BY DEF IngestInd, Named
    <3>2. \A d \in SrtOpen \cup {c} : srt'[d].name \in Broadcasts
      BY <3>1, <1>1, <1>2 DEF SrtOpen
    <3> QED BY <3>2, <1>0, <1>3 DEF IngestInd, Named
  <2>2. RowsAreOpen'
    <3> SUFFICES ASSUME NEW x \in Broadcasts, rows'[x] # None
                 PROVE  rows'[x] \in Open' /\ NameOf(rows[x])' = x
      BY DEF RowsAreOpen
    <3>1. CASE x = b
      BY <3>1, <1>2, <1>3 DEF Open, NameOf, IngestInd, TypeOK, SharedTypeOK
    <3>2. CASE x # b
      <4>1. rows'[x] = rows[x] /\ rows[x] \in Open /\ NameOf(rows[x]) = x
        BY <3>2 DEF IngestInd, TypeOK, SharedTypeOK, RowsAreOpen
      <4>2. rows[x] \in Open'
        BY <4>1, <1>0, <1>3 DEF Open
      <4>3. c \notin SrtOpen /\ c \notin WhipSessions
        BY <1>2, SessionsAssumption DEF SrtOpen
      <4>4. rows[x] # c
        BY <4>1, <4>3 DEF Open, WhipOpen
      <4> QED BY <4>1, <4>2, <4>4, <1>0, <1>1 DEF NameOf
    <3> QED BY <3>1, <3>2
  <2> QED BY <2>1, <2>2
<1>7. MediaHasInit' /\ SrtReady' /\ StopAhead'
  BY <1>1, <1>2, <1>4 DEF IngestInd, MediaHasInit, SrtReady, StopAhead, whipVars
<1> QED BY <1>4, <1>5, <1>6, <1>7, SrtFrame DEF IngestInd

\* A connection publishes: its task goes on with more init segments, each in
\* the registry, and the fragment is of a track that has one.
LEMMA SrtPublishes ==
  ASSUME IngestInd, NEW c \in SrtConns, srt[c].at = "recv",
         NEW known \in BOOLEAN, NEW init \in SUBSET Tracks, NEW m \in SUBSET Tracks,
         srt' = [srt EXCEPT ![c].sets = known, ![c].init = init],
         \A t \in init : <<srt[c].name, t>> \in ready',
         ready \subseteq ready', ready' \subseteq Broadcasts \X Tracks,
         m \subseteq init,
         fed' = fed \cup {<<srt[c].name, t>> : t \in m},
         live' = live \/ live' = live \cup {srt[c].name},
         UNCHANGED <<inventory, whipVars>>
  PROVE  IngestInd'
<1> USE DEF inventory
<1>0. whip' = whip /\ WhipOpen' = WhipOpen /\ streams' = streams /\ crowded' = crowded
  BY SrtFrame DEF whipVars
<1>1. /\ srt' \in [SrtConns -> SrtTasks] /\ srt'[c] = [srt[c] EXCEPT !.sets = known, !.init = init]
      /\ \A d \in SrtConns \ {c} : srt'[d] = srt[d]
  <2> DEFINE x == [srt[c] EXCEPT !.sets = known, !.init = init]
  <2>1. srt \in [SrtConns -> SrtTasks] /\ srt[c] \in SrtTasks
    BY SrtTask
  <2>2. x \in SrtTasks
    BY <2>1 DEF SrtTasks
  <2>3. srt' = [srt EXCEPT ![c] = x]
    BY <2>1
  <2> HIDE DEF x
  <2>4. srt' \in [SrtConns -> SrtTasks] /\ srt'[c] = x /\ \A d \in SrtConns \ {c} : srt'[d] = srt[d]
    BY <2>1, <2>2, <2>3
  <2> QED BY <2>4 DEF x
<1>2. /\ srt'[c].at = "recv" /\ srt'[c].name = srt[c].name /\ srt'[c].init = init
      /\ srt[c].name \in Broadcasts
  BY <1>1, SrtTask DEF SrtTasks
<1>3. /\ SrtOpen' = SrtOpen
      /\ \A d \in SrtConns : srt'[d].at = srt[d].at /\ srt'[d].name = srt[d].name
  BY <1>1, <1>2 DEF SrtOpen
<1>4. TypeOK'
  <2>1. fed' \subseteq Broadcasts \X Tracks /\ live' \subseteq Broadcasts
    BY <1>2 DEF IngestInd, TypeOK, SharedTypeOK
  <2> QED BY <1>1, <2>1, SrtFrame DEF IngestInd, TypeOK, SharedTypeOK, SrtTypeOK, Sessions, SrtTasks
<1>5. Named' /\ RowsAreOpen'
  <2>1. Open' = Open /\ rows' = rows
    BY <1>0, <1>3 DEF Open
  <2>2. SrtOpen \subseteq SrtConns
    BY DEF SrtOpen
  <2>3. Named'
    BY <1>0, <1>3, <2>2 DEF IngestInd, Named
  <2>4. \A b \in Broadcasts : NameOf(rows[b])' = NameOf(rows[b])
    BY <1>0, <1>3, <2>1 DEF NameOf
  <2> QED BY <2>1, <2>3, <2>4 DEF IngestInd, RowsAreOpen
<1>6. MediaHasInit'
  BY DEF IngestInd, MediaHasInit, whipVars
<1>7. SrtReady'
  BY <1>1, <1>2 DEF IngestInd, SrtReady
<1>8. StopAhead'
  <2> SUFFICES ASSUME NEW b \in Broadcasts, b \notin crowded, b \in live'
               PROVE  \/ \E d \in SrtConns : srt'[d].at = "recv" /\ srt'[d].name = b
                      \/ streams[b] # {}
    BY <1>0 DEF StopAhead
  <2>1. CASE b = srt[c].name
    BY <2>1, <1>2
  <2>2. CASE b # srt[c].name
    <3>1. b \in live
      BY <2>2
    <3> QED BY <3>1, <1>3 DEF IngestInd, StopAhead
  <2> QED BY <2>1, <2>2
<1> QED BY <1>4, <1>5, <1>6, <1>7, <1>8, SrtFrame DEF IngestInd

LEMMA SrtVideoStep ==
  ASSUME IngestInd, NEW c \in SrtConns, NEW sets \in BOOLEAN, NEW slices \in BOOLEAN,
         SrtVideo(c, sets, slices), UNCHANGED whipVars
  PROVE  IngestInd'
<1> DEFINE known == srt[c].sets \/ sets
           init == IF known THEN srt[c].init \cup {Video} ELSE srt[c].init
           m == IF known /\ slices THEN {Video} ELSE {}
<1>1. srt[c].at = "recv" /\ srt[c].sets \in BOOLEAN /\ srt[c].init \in SUBSET Tracks /\ srt[c].name \in Broadcasts
  BY SrtTask DEF SrtVideo, SrtTasks
<1>2. known \in BOOLEAN /\ init \in SUBSET Tracks /\ m \in SUBSET Tracks /\ m \subseteq init
  BY <1>1 DEF Tracks
<1>3. srt' = [srt EXCEPT ![c].sets = known, ![c].init = init]
  BY <1>1 DEF SrtVideo
<1>4. /\ ready' = ready \/ ready' = ready \cup {<<srt[c].name, Video>>}
      /\ known /\ Video \notin srt[c].init => ready' = ready \cup {<<srt[c].name, Video>>}
  BY DEF SrtVideo, publish_init
<1>5. \A t \in srt[c].init : <<srt[c].name, t>> \in ready
  BY DEF IngestInd, SrtReady
<1>6. \A t \in init : <<srt[c].name, t>> \in ready'
  BY <1>4, <1>5
<1>7. ready \subseteq ready' /\ ready' \subseteq Broadcasts \X Tracks
  BY <1>1, <1>4 DEF IngestInd, TypeOK, SharedTypeOK, Tracks
<1>8. fed' = fed \cup {<<srt[c].name, t>> : t \in m} /\ (live' = live \/ live' = live \cup {srt[c].name})
  BY DEF SrtVideo, publish_fragment
<1>9. UNCHANGED inventory
  BY DEF SrtVideo
<1> HIDE DEF known, init, m
<1> QED BY <1>1, <1>2, <1>3, <1>6, <1>7, <1>8, <1>9, SrtPublishes

LEMMA SrtAudioStep ==
  ASSUME IngestInd, NEW c \in SrtConns, SrtAudio(c), UNCHANGED whipVars
  PROVE  IngestInd'
<1> DEFINE sets == srt[c].sets
           init == srt[c].init \cup {Audio}
           m == {Audio}
<1>1. srt[c].at = "recv" /\ srt[c].sets \in BOOLEAN /\ srt[c].init \in SUBSET Tracks /\ srt[c].name \in Broadcasts
  BY SrtTask DEF SrtAudio, SrtTasks
<1>2. sets \in BOOLEAN /\ init \in SUBSET Tracks /\ m \in SUBSET Tracks /\ m \subseteq init
  BY <1>1 DEF Tracks
<1>3. srt' = [srt EXCEPT ![c].sets = sets, ![c].init = init]
  BY <1>1, SrtTask DEF SrtAudio, SrtTasks
<1>4. /\ ready' = ready \/ ready' = ready \cup {<<srt[c].name, Audio>>}
      /\ Audio \notin srt[c].init => ready' = ready \cup {<<srt[c].name, Audio>>}
  BY DEF SrtAudio, publish_init
<1>5. \A t \in srt[c].init : <<srt[c].name, t>> \in ready
  BY DEF IngestInd, SrtReady
<1>6. \A t \in init : <<srt[c].name, t>> \in ready'
  BY <1>4, <1>5
<1>7. ready \subseteq ready' /\ ready' \subseteq Broadcasts \X Tracks
  BY <1>1, <1>4 DEF IngestInd, TypeOK, SharedTypeOK, Tracks
<1>8. fed' = fed \cup {<<srt[c].name, t>> : t \in m} /\ live' = live \cup {srt[c].name}
  BY DEF SrtAudio, publish_fragment
<1>9. UNCHANGED inventory
  BY DEF SrtAudio
<1> HIDE DEF sets, init, m
<1> QED BY <1>1, <1>2, <1>3, <1>6, <1>7, <1>8, <1>9, SrtPublishes

LEMMA SrtExitStep ==
  ASSUME IngestInd, NEW c \in SrtConns, SrtExit(c), UNCHANGED whipVars
  PROVE  IngestInd'
<1> USE DEF SrtExit, BroadcastStopped, inventory, registry
<1>0. whip' = whip /\ WhipOpen' = WhipOpen /\ streams' = streams /\ crowded' = crowded
  BY SrtFrame DEF whipVars
<1>1. /\ srt' \in [SrtConns -> SrtTasks] /\ srt'[c] = [srt[c] EXCEPT !.at = "stopped"]
      /\ \A d \in SrtConns \ {c} : srt'[d] = srt[d]
  BY SrtTask DEF SrtTasks
<1>2. /\ srt[c].at = "recv" /\ srt'[c].at = "stopped"
      /\ srt'[c].name = srt[c].name /\ srt'[c].init = srt[c].init /\ srt[c].name \in Broadcasts
  BY <1>1, SrtTask DEF SrtTasks
<1>3. SrtOpen' = SrtOpen /\ \A d \in SrtConns : srt'[d].name = srt[d].name
  BY <1>1, <1>2 DEF SrtOpen
<1>4. TypeOK'
  BY <1>1, SrtFrame DEF IngestInd, TypeOK, SharedTypeOK, SrtTypeOK, Sessions, SrtTasks
<1>5. Named' /\ RowsAreOpen'
  <2>1. Open' = Open /\ rows' = rows
    BY <1>0, <1>3 DEF Open
  <2>2. SrtOpen \subseteq SrtConns
    BY DEF SrtOpen
  <2>3. Named'
    BY <1>0, <1>3, <2>2 DEF IngestInd, Named
  <2>4. \A b \in Broadcasts : NameOf(rows[b])' = NameOf(rows[b])
    BY <1>0, <1>3, <2>1 DEF NameOf
  <2> QED BY <2>1, <2>3, <2>4 DEF IngestInd, RowsAreOpen
<1>6. MediaHasInit' /\ SrtReady'
  BY <1>0, <1>1, <1>2 DEF IngestInd, MediaHasInit, SrtReady
<1>7. StopAhead'
  <2> SUFFICES ASSUME NEW b \in Broadcasts, b \notin crowded, b \in live'
               PROVE  \/ \E d \in SrtConns : srt'[d].at = "recv" /\ srt'[d].name = b
                      \/ streams[b] # {}
    BY <1>0 DEF StopAhead
  <2>1. b \in live /\ b # srt[c].name
    OBVIOUS
  <2>2. \/ \E d \in SrtConns : srt[d].at = "recv" /\ srt[d].name = b
        \/ streams[b] # {}
    BY <2>1 DEF IngestInd, StopAhead
  <2> QED BY <2>1, <2>2, <1>1
<1> QED BY <1>4, <1>5, <1>6, <1>7, SrtFrame DEF IngestInd

LEMMA SrtDeregisterStep ==
  ASSUME IngestInd, NEW c \in SrtConns, SrtDeregister(c), UNCHANGED whipVars
  PROVE  IngestInd'
<1> USE DEF SrtDeregister, deregister, DropToken, registry
<1>0. whip' = whip /\ WhipOpen' = WhipOpen /\ streams' = streams /\ crowded' = crowded
  BY SrtFrame DEF whipVars
<1>1. /\ srt' \in [SrtConns -> SrtTasks] /\ srt'[c].at = "gone" /\ srt'[c].init = {}
      /\ \A d \in SrtConns \ {c} : srt'[d] = srt[d]
  BY SrtTask DEF SrtTasks, NoSrt
<1>2. srt[c].at = "stopped" /\ srt[c].name \in Broadcasts
  BY SrtTask
<1>3. SrtOpen' = SrtOpen \ {c}
  BY <1>1 DEF SrtOpen
<1>4. TypeOK'
  <2>1. rows' \in [Broadcasts -> Sessions \cup {None}]
    BY DEF IngestInd, TypeOK, SharedTypeOK
  <2> QED BY <2>1, <1>1, SrtFrame DEF IngestInd, TypeOK, SharedTypeOK, SrtTypeOK, Sessions, SrtTasks
<1>5. Named'
  <2>1. \A d \in SrtOpen \ {c} : srt'[d].name \in Broadcasts
    BY <1>1 DEF IngestInd, Named, SrtOpen
  <2> QED BY <2>1, <1>0, <1>3 DEF IngestInd, Named
<1>6. RowsAreOpen'
  <2> SUFFICES ASSUME NEW x \in Broadcasts, rows'[x] # None
               PROVE  rows'[x] \in Open' /\ NameOf(rows[x])' = x
    BY DEF RowsAreOpen
  <2>1. x # srt[c].name /\ rows'[x] = rows[x]
    BY DEF IngestInd, TypeOK, SharedTypeOK
  <2>2. rows[x] \in Open /\ NameOf(rows[x]) = x
    BY <2>1 DEF IngestInd, RowsAreOpen
  <2>3. rows[x] # c
    BY <2>1, <2>2 DEF NameOf
  <2> QED BY <2>1, <2>2, <2>3, <1>0, <1>1, <1>3 DEF Open, NameOf
<1>7. MediaHasInit' /\ SrtReady'
  BY <1>0, <1>1, <1>2 DEF IngestInd, MediaHasInit, SrtReady
<1>8. StopAhead'
  BY <1>0, <1>1, <1>2 DEF IngestInd, StopAhead
<1> QED BY <1>4, <1>5, <1>6, <1>7, <1>8, SrtFrame DEF IngestInd

LEMMA SrtStep ==
  ASSUME IngestInd, NEW c \in SrtConns, SrtNext(c), UNCHANGED whipVars
  PROVE  IngestInd'
<1>1. CASE \E b \in Broadcasts : SrtAccept(c, b)
  BY <1>1, SrtAcceptStep
<1>2. CASE \E sets, slices \in BOOLEAN : SrtVideo(c, sets, slices)
  BY <1>2, SrtVideoStep
<1>3. CASE SrtAudio(c)
  BY <1>3, SrtAudioStep
<1>4. CASE SrtClosed(c) \/ SrtCancelled(c)
  BY <1>4, SrtExitStep DEF SrtClosed, SrtCancelled
<1>5. CASE SrtDeregister(c)
  BY <1>5, SrtDeregisterStep
<1> QED BY <1>1, <1>2, <1>3, <1>4, <1>5 DEF SrtNext

\* What the operator does cancels tokens, and nothing else.
LEMMA AdminStep == ASSUME IngestInd, Admin PROVE IngestInd'
<1>1. UNCHANGED <<srt, whip, streams, handles, crowded, rows, ready, fed, live>>
  BY DEF Admin, StopBroadcast, StopListener, whipVars, registry
<1>2. killed' \subseteq Sessions /\ listening' \subseteq {"srt"}
  <2>1. CASE \E b \in Broadcasts : StopBroadcast(b)
    BY <2>1 DEF StopBroadcast, IngestInd, TypeOK, SharedTypeOK
  <2>2. CASE StopListener("srt", SrtOpen)
    BY <2>2 DEF StopListener, IngestInd, TypeOK, SharedTypeOK, SrtOpen, Sessions
  <2> QED BY <2>1, <2>2 DEF Admin
<1>3. SrtOpen' = SrtOpen /\ WhipOpen' = WhipOpen /\ WhipActive' = WhipActive
  BY <1>1 DEF SrtOpen, WhipOpen, WhipActive
<1>4. TypeOK' /\ Named' /\ Crowds' /\ NoOrphanStream'
  BY <1>1, <1>2, <1>3
  DEF IngestInd, TypeOK, SharedTypeOK, SrtTypeOK, WhipTypeOK, Named, Crowds, NoOrphanStream, Sessions
<1>5. RowsAreOpen' /\ MediaHasInit' /\ SrtReady' /\ VideoReady'
  BY <1>1, <1>3 DEF IngestInd, RowsAreOpen, Open, NameOf, MediaHasInit, SrtReady, VideoReady
<1>6. AudioReady' /\ StreamHeld' /\ StopAhead'
  BY <1>1 DEF IngestInd, AudioReady, StreamHeld, StopAhead
<1> QED BY <1>4, <1>5, <1>6 DEF IngestInd

-----------------------------------------------------------------------------
(* WHIP.                                                                   *)

\* The poll task of one session moves, the others stay where they are.
LEMMA WhipGoto ==
  ASSUME IngestInd, NEW s \in WhipSessions, NEW w \in WhipAt, Goto(s, w)
  PROVE  /\ whip' \in [WhipSessions -> WhipTasks] /\ whip'[s].at = w
         /\ \A r \in WhipSessions : whip'[r].name = whip[r].name
         /\ \A r \in WhipSessions \ {s} : whip'[r] = whip[r]
<1>1. whip' \in [WhipSessions -> WhipTasks] /\ whip'[s] = [whip[s] EXCEPT !.at = w]
  BY WhipTask DEF Goto, WhipTasks
<1>2. \A r \in WhipSessions \ {s} : whip'[r] = whip[r]
  BY WhipTask DEF Goto
<1>3. whip'[s].at = w /\ whip'[s].name = whip[s].name
  BY <1>1, WhipTask DEF WhipTasks
<1> QED BY <1>1, <1>2, <1>3

\* A move between two open states leaves the inventory's view of things.
LEMMA WhipFrame ==
  ASSUME IngestInd, NEW s \in WhipOpen, NEW w \in WhipAt \ {"idle", "gone"}, Goto(s, w),
         UNCHANGED <<srt, rows, crowded>>
  PROVE  /\ SrtTypeOK' /\ SrtOpen' = SrtOpen /\ WhipOpen' = WhipOpen
         /\ Named' /\ Crowds' /\ RowsAreOpen'
<1>0. s \in WhipSessions
  BY DEF WhipOpen
<1>1. SrtTypeOK' /\ SrtOpen' = SrtOpen
  BY DEF IngestInd, TypeOK, SrtTypeOK, SrtOpen
<1>2. WhipOpen' = WhipOpen
  BY <1>0, WhipGoto DEF WhipOpen
<1>3. WhipOpen \subseteq WhipSessions
  BY DEF WhipOpen
<1>4. Named'
  BY <1>0, <1>1, <1>2, <1>3, WhipGoto DEF IngestInd, Named
<1>5. Crowds'
  BY <1>0, <1>2, <1>3, WhipGoto DEF IngestInd, Crowds
<1>6. RowsAreOpen'
  <2>1. Open' = Open /\ Open \subseteq SrtConns \cup WhipSessions
    BY <1>1, <1>2, <1>3 DEF Open, SrtOpen
  <2>2. \A b \in Broadcasts : rows[b] # None => rows[b] \in Open /\ NameOf(rows[b]) = b
    BY DEF IngestInd, RowsAreOpen
  <2>3. \A b \in Broadcasts : rows[b] # None => NameOf(rows[b])' = NameOf(rows[b])
    BY <2>1, <2>2, <1>0, WhipGoto DEF NameOf
  <2> QED BY <2>1, <2>2, <2>3 DEF RowsAreOpen
<1> QED BY <1>1, <1>2, <1>4, <1>5, <1>6

\* A session that has its name to itself finds an audio track only when the
\* init segment is published.
LEMMA WhipAlone ==
  ASSUME IngestInd, NEW s \in WhipOpen, whip[s].at # "audio_init",
         whip[s].name \notin crowded, Audio \in streams[whip[s].name]
  PROVE  <<whip[s].name, Audio>> \in ready
<1>1. whip[s].name \in Broadcasts
  BY DEF IngestInd, Named
<1>2. SUFFICES ASSUME NEW r \in WhipSessions, whip[r].at = "audio_init", whip[r].name = whip[s].name
               PROVE  FALSE
  BY <1>1 DEF IngestInd, AudioReady
<1>3. r \in WhipOpen /\ r # s
  BY <1>2 DEF WhipOpen
<1> QED BY <1>2, <1>3 DEF IngestInd, Crowds

\* A session that is using the bridge goes to w; the stream of its name b has
\* the tracks x, and media of the tracks m is published.
Move(s, w, b, x, m) ==
  /\ s \in WhipActive /\ w \in WhipAt \ {"idle", "gone", "left"}
  /\ b \in Broadcasts /\ b = whip[s].name
  /\ x \subseteq Tracks /\ m \subseteq Tracks
  /\ Goto(s, w) /\ UNCHANGED <<srt, rows, killed, listening, handles, crowded>>
  /\ streams' = [streams EXCEPT ![b] = x] /\ (streams[b] # {} => x # {})
  /\ ready \subseteq ready' /\ ready' \subseteq Broadcasts \X Tracks
  /\ fed' = fed \cup {<<b, t>> : t \in m}
  /\ live' = IF m = {} THEN live ELSE live \cup {b}
  /\ x # {} => <<b, Video>> \in ready'
  /\ Audio \in x /\ b \notin crowded => <<b, Audio>> \in ready' \/ w = "audio_init"
  /\ w \in {"insert", "publish"} => <<b, Video>> \in ready'
  /\ w \in {"audio_push", "audio_publish"} => <<b, Audio>> \in ready' \/ b \in crowded
  /\ w \in {"publish", "audio_publish"} /\ b \notin crowded => x # {}
  /\ \A t \in m : <<b, t>> \in ready' \/ (t = Audio /\ b \in crowded)
  /\ m # {} /\ b \notin crowded => x # {}

LEMMA WhipMoves ==
  ASSUME IngestInd, NEW s, NEW w, NEW b, NEW x, NEW m, Move(s, w, b, x, m)
  PROVE  IngestInd'
<1> USE DEF Move
<1>0. s \in WhipSessions /\ s \in WhipOpen
  BY DEF WhipActive, WhipOpen
<1>1. /\ whip' \in [WhipSessions -> WhipTasks] /\ whip'[s].at = w
      /\ \A r \in WhipSessions : whip'[r].name = whip[r].name
      /\ \A r \in WhipSessions \ {s} : whip'[r] = whip[r]
  BY <1>0, WhipGoto
<1>2. /\ SrtTypeOK' /\ WhipOpen' = WhipOpen
      /\ Named' /\ Crowds' /\ RowsAreOpen'
  BY <1>0, WhipFrame
<1>3. streams \in [Broadcasts -> SUBSET Tracks]
  BY DEF IngestInd, TypeOK, WhipTypeOK
<1>4. /\ streams' \in [Broadcasts -> SUBSET Tracks] /\ streams'[b] = x
      /\ \A c \in Broadcasts \ {b} : streams'[c] = streams[c]
  BY <1>3
<1>5. TypeOK'
  <2>1. WhipTypeOK'
    BY <1>1, <1>4 DEF IngestInd, TypeOK, WhipTypeOK, WhipTasks
  <2>2. fed' \subseteq Broadcasts \X Tracks /\ live' \subseteq Broadcasts
    BY DEF IngestInd, TypeOK, SharedTypeOK
  <2> QED BY <1>2, <2>1, <2>2 DEF IngestInd, TypeOK, SharedTypeOK, Sessions
<1>6. NoOrphanStream'
  <2>1. WhipActive' = WhipActive /\ WhipActive \subseteq WhipSessions
    BY <1>0, <1>1, <1>2 DEF WhipActive, WhipOpen
  <2> QED BY <2>1, <1>1, <1>4 DEF IngestInd, NoOrphanStream
<1>7. MediaHasInit'
  BY DEF IngestInd, MediaHasInit
<1>8. SrtReady' /\ VideoReady'
  <2>1. SrtReady'
    BY DEF IngestInd, SrtReady
  <2>2. VideoReady'
    BY <1>1, <1>4 DEF IngestInd, VideoReady
  <2> QED BY <2>1, <2>2
<1>9. AudioReady'
  <2>1. ASSUME NEW c \in Broadcasts \ crowded, Audio \in streams'[c]
        PROVE  \/ <<c, Audio>> \in ready'
               \/ \E r \in WhipSessions : whip'[r].at = "audio_init" /\ whip'[r].name = c
    <3>1. CASE c = b
      BY <2>1, <3>1, <1>0, <1>1, <1>4
    <3>2. CASE c # b
      <4>1. \/ <<c, Audio>> \in ready
            \/ \E r \in WhipSessions : whip[r].at = "audio_init" /\ whip[r].name = c
        BY <2>1, <3>2, <1>4 DEF IngestInd, AudioReady
      <4> QED BY <4>1, <3>2, <1>1
    <3> QED BY <3>1, <3>2
  <2>2. \A r \in WhipSessions : whip'[r].at \in {"audio_push", "audio_publish"} =>
          <<whip'[r].name, Audio>> \in ready' \/ whip'[r].name \in crowded
    BY <1>1 DEF IngestInd, AudioReady
  <2> QED BY <2>1, <2>2 DEF AudioReady
<1>10. StreamHeld'
  <2> SUFFICES ASSUME NEW r \in WhipSessions, whip'[r].at \in {"publish", "audio_publish"},
                      whip'[r].name \notin crowded
               PROVE  streams'[whip'[r].name] # {}
    BY DEF StreamHeld
  <2>1. CASE r = s
    BY <2>1, <1>1, <1>4
  <2>2. CASE r # s
    <3>1. whip[r].name \in Broadcasts /\ streams[whip[r].name] # {} /\ whip'[r].name = whip[r].name
      BY <2>2, <1>1, WhipTask DEF IngestInd, StreamHeld
    <3> QED BY <3>1, <1>4
  <2> QED BY <2>1, <2>2
<1>11. StopAhead'
  <2> SUFFICES ASSUME NEW c \in Broadcasts, c \notin crowded, c \in live'
               PROVE  \/ \E d \in SrtConns : srt[d].at = "recv" /\ srt[d].name = c
                      \/ streams'[c] # {}
    BY DEF StopAhead
  <2>1. CASE c \in live
    <3>1. \/ \E d \in SrtConns : srt[d].at = "recv" /\ srt[d].name = c
          \/ streams[c] # {}
      BY <2>1 DEF IngestInd, StopAhead
    <3> QED BY <3>1, <1>4
  <2>2. CASE c \notin live
    BY <2>2, <1>4
  <2> QED BY <2>1, <2>2
<1> QED BY <1>2, <1>5, <1>6, <1>7, <1>8, <1>9, <1>10, <1>11 DEF IngestInd

\* A session that uses the bridge, before and after a step.
LEMMA WhipUses ==
  ASSUME IngestInd, NEW s \in WhipSessions, whip[s].at \notin {"idle", "gone", "left"}
  PROVE  /\ s \in WhipActive /\ s \in WhipOpen /\ whip[s].name \in Broadcasts
         /\ streams[whip[s].name] \in SUBSET Tracks
         /\ streams = [streams EXCEPT ![whip[s].name] = streams[whip[s].name]]
         /\ streams[whip[s].name] # {} => <<whip[s].name, Video>> \in ready
<1>1. s \in WhipActive /\ s \in WhipOpen /\ whip[s].name \in Broadcasts
  BY WhipTask DEF WhipActive, WhipOpen
<1>2. streams \in [Broadcasts -> SUBSET Tracks]
  BY DEF IngestInd, TypeOK, WhipTypeOK
<1>3. streams[whip[s].name] # {} => <<whip[s].name, Video>> \in ready
  BY <1>1 DEF IngestInd, VideoReady
<1> QED BY <1>1, <1>2, <1>3

\* A sample or a frame is taken in hand, goes on or is dropped: the bridge and
\* the registry are only looked at.
LEMMA WhipLooks ==
  ASSUME IngestInd, NEW s \in WhipSessions, NEW w \in {"poll", "init", "push", "publish", "audio_publish"},
         whip[s].at \notin {"idle", "gone", "left", "audio_init"},
         Goto(s, w), UNCHANGED <<srt, streams, handles, crowded, shared>>,
         w \in {"publish", "audio_publish"} => streams[whip[s].name] # {},
         w = "audio_publish" => Audio \in streams[whip[s].name]
  PROVE  IngestInd'
<1> DEFINE b == whip[s].name
           x == streams[b]
           m == {}
<1>1. /\ s \in WhipActive /\ s \in WhipOpen /\ b \in Broadcasts /\ x \in SUBSET Tracks
      /\ streams = [streams EXCEPT ![b] = x] /\ (x # {} => <<b, Video>> \in ready)
  BY WhipUses
<1>2. Audio \in x /\ b \notin crowded => <<b, Audio>> \in ready
  BY <1>1, WhipAlone
<1>3. w \in WhipAt \ {"idle", "gone", "left"} /\ m \in SUBSET Tracks
  BY DEF WhipAt
<1>4. UNCHANGED <<streams, rows, killed, listening, handles, crowded, ready, fed, live>>
  BY DEF shared, inventory, registry
<1>5. ready \subseteq Broadcasts \X Tracks
  BY DEF IngestInd, TypeOK, SharedTypeOK
<1>6. /\ fed' = fed \cup {<<b, t2>> : t2 \in m}
      /\ live' = IF m = {} THEN live ELSE live \cup {b}
      /\ \A t \in m : <<b, t>> \in ready' \/ (t = Audio /\ b \in crowded)
  BY <1>4
<1>7. /\ w \in {"insert", "publish"} => <<b, Video>> \in ready'
      /\ w \in {"audio_push", "audio_publish"} => <<b, Audio>> \in ready' \/ b \in crowded
      /\ w \in {"publish", "audio_publish"} /\ b \notin crowded => x # {}
      /\ m = {}
  BY <1>1, <1>2, <1>4
<1>8. streams' = [streams EXCEPT ![b] = x]
  BY <1>1, <1>4
<1>9. /\ ready \subseteq ready' /\ ready' \subseteq Broadcasts \X Tracks
      /\ x # {} => <<b, Video>> \in ready'
      /\ Audio \in x /\ b \notin crowded => <<b, Audio>> \in ready' \/ w = "audio_init"
      /\ streams[b] # {} => x # {}
      /\ b = whip[s].name
  BY <1>1, <1>2, <1>4, <1>5
<1> HIDE DEF b, x, m
<1>10. Move(s, w, b, x, m)
  BY <1>1, <1>3, <1>4, <1>6, <1>7, <1>8, <1>9 DEF Move
<1> QED BY <1>10, WhipMoves

LEMMA WhipLookSteps ==
  ASSUME IngestInd, NEW s \in WhipSessions, UNCHANGED srt,
         WhipSample(s) \/ WhipRefused(s) \/ WhipPush(s) \/ WhipAudioPush(s)
  PROVE  IngestInd'
<1>1. CASE WhipSample(s)
  <2>1. PICK w \in {"poll", "init", "push", "publish", "audio_publish"} : w \in {"init", "push"} /\ Goto(s, w)
    BY <1>1 DEF WhipSample
  <2> QED BY <1>1, <2>1, WhipLooks DEF WhipSample
<1>2. CASE WhipRefused(s)
  BY <1>2, WhipLooks DEF WhipRefused
<1>3. CASE WhipPush(s)
  <2>1. PICK w \in {"poll", "publish"} : Goto(s, w) /\ (w = "publish" => streams[whip[s].name] # {})
    BY <1>3 DEF WhipPush
  <2> QED BY <1>3, <2>1, WhipLooks DEF WhipPush
<1>4. CASE WhipAudioPush(s)
  <2>1. PICK w \in {"poll", "audio_publish"} : Goto(s, w) /\ (w = "audio_publish" => Audio \in streams[whip[s].name])
    BY <1>4 DEF WhipAudioPush
  <2>2. w \in {"publish", "audio_publish"} => streams[whip[s].name] # {}
    BY <2>1
  <2> QED BY <1>4, <2>1, <2>2, WhipLooks DEF WhipAudioPush
<1> QED BY <1>1, <1>2, <1>3, <1>4

\* An init segment is published.
LEMMA WhipInits ==
  ASSUME IngestInd, NEW s \in WhipSessions, NEW t \in Tracks, NEW w \in {"insert", "audio_push"},
         whip[s].at \notin {"idle", "gone", "left"}, UNCHANGED srt,
         publish_init(whip[s].name, t), Goto(s, w),
         UNCHANGED <<streams, handles, crowded, inventory, fed, live>>,
         w = "insert" => t = Video /\ whip[s].at # "audio_init",
         w = "audio_push" => t = Audio
  PROVE  IngestInd'
<1> DEFINE b == whip[s].name
           x == streams[b]
           m == {}
<1>1. /\ s \in WhipActive /\ s \in WhipOpen /\ b \in Broadcasts /\ x \in SUBSET Tracks
      /\ streams = [streams EXCEPT ![b] = x] /\ (x # {} => <<b, Video>> \in ready)
  BY WhipUses
<1>2. UNCHANGED <<streams, rows, killed, listening, handles, crowded, fed, live>>
  BY DEF inventory
<1>3. ready' = ready \cup {<<b, t>>} /\ ready' \subseteq Broadcasts \X Tracks
  BY <1>1 DEF IngestInd, TypeOK, SharedTypeOK, publish_init
<1>4. w \in WhipAt \ {"idle", "gone", "left"} /\ m \in SUBSET Tracks
  BY DEF WhipAt
<1>5. /\ fed' = fed \cup {<<b, t2>> : t2 \in m}
      /\ live' = IF m = {} THEN live ELSE live \cup {b}
      /\ \A t1 \in m : <<b, t1>> \in ready' \/ (t1 = Audio /\ b \in crowded)
      /\ m = {}
  BY <1>2
<1>6. /\ w \in {"insert", "publish"} => <<b, Video>> \in ready'
      /\ w \in {"audio_push", "audio_publish"} => <<b, Audio>> \in ready' \/ b \in crowded
      /\ w \notin {"publish", "audio_publish"}
  BY <1>3
<1>7. Audio \in x /\ b \notin crowded => <<b, Audio>> \in ready'
  BY <1>1, <1>3, WhipAlone
<1>8. /\ ready \subseteq ready' /\ (x # {} => <<b, Video>> \in ready')
      /\ streams' = [streams EXCEPT ![b] = x]
      /\ streams[b] # {} => x # {}
      /\ b = whip[s].name
  BY <1>1, <1>2, <1>3
<1> HIDE DEF b, x, m
<1>10. Move(s, w, b, x, m)
  BY <1>1, <1>2, <1>3, <1>4, <1>5, <1>6, <1>7, <1>8 DEF Move
<1> QED BY <1>10, WhipMoves

LEMMA WhipInitSteps ==
  ASSUME IngestInd, NEW s \in WhipSessions, UNCHANGED srt, WhipCreate(s) \/ WhipAudioInit(s)
  PROVE  IngestInd'
<1>1. Video \in Tracks /\ Audio \in Tracks
  BY DEF Tracks
<1>2. CASE WhipCreate(s)
  BY <1>1, <1>2, WhipInits DEF WhipCreate
<1>3. CASE WhipAudioInit(s)
  BY <1>1, <1>3, WhipInits DEF WhipAudioInit
<1> QED BY <1>2, <1>3

\* A fragment is published.
LEMMA WhipPublishes ==
  ASSUME IngestInd, NEW s \in WhipSessions, NEW t \in Tracks, UNCHANGED srt,
         \/ whip[s].at = "publish" /\ t = Video
         \/ whip[s].at = "audio_publish" /\ t = Audio,
         publish_fragment(whip[s].name, t), Goto(s, "poll"),
         UNCHANGED <<streams, handles, crowded, inventory, ready>>
  PROVE  IngestInd'
<1> DEFINE b == whip[s].name
           x == streams[b]
           m == {t}
           w == "poll"
<1>1. /\ s \in WhipActive /\ s \in WhipOpen /\ b \in Broadcasts /\ x \in SUBSET Tracks
      /\ streams = [streams EXCEPT ![b] = x] /\ (x # {} => <<b, Video>> \in ready)
  BY WhipUses
<1>2. UNCHANGED <<streams, rows, killed, listening, handles, crowded, ready>>
  BY DEF inventory
<1>3. w \in WhipAt \ {"idle", "gone", "left"} /\ m \in SUBSET Tracks
  BY DEF WhipAt
<1>4. /\ fed' = fed \cup {<<b, t2>> : t2 \in m}
      /\ live' = IF m = {} THEN live ELSE live \cup {b}
  BY DEF publish_fragment
<1>5. <<b, t>> \in ready' \/ (t = Audio /\ b \in crowded)
  BY <1>2 DEF IngestInd, VideoReady, AudioReady
<1>6. b \notin crowded => x # {}
  BY DEF IngestInd, StreamHeld
<1>7. Audio \in x /\ b \notin crowded => <<b, Audio>> \in ready'
  BY <1>1, <1>2, WhipAlone
<1>8. /\ ready \subseteq ready' /\ (x # {} => <<b, Video>> \in ready')
      /\ ready' \subseteq Broadcasts \X Tracks
      /\ streams' = [streams EXCEPT ![b] = x]
      /\ streams[b] # {} => x # {}
      /\ b = whip[s].name
      /\ w \notin {"insert", "publish", "audio_push", "audio_publish"}
      /\ Goto(s, w)
      /\ \A t1 \in m : <<b, t1>> \in ready' \/ (t1 = Audio /\ b \in crowded)
  BY <1>1, <1>2, <1>5 DEF IngestInd, TypeOK, SharedTypeOK
<1> HIDE DEF b, x, m, w
<1>10. Move(s, w, b, x, m)
  BY <1>1, <1>2, <1>3, <1>4, <1>6, <1>7, <1>8 DEF Move
<1> QED BY <1>10, WhipMoves

LEMMA WhipPublishSteps ==
  ASSUME IngestInd, NEW s \in WhipSessions, UNCHANGED srt, WhipPublish(s) \/ WhipAudioPublish(s)
  PROVE  IngestInd'
<1>1. Video \in Tracks /\ Audio \in Tracks
  BY DEF Tracks
<1>2. CASE WhipPublish(s)
  BY <1>1, <1>2, WhipPublishes DEF WhipPublish
<1>3. CASE WhipAudioPublish(s)
  BY <1>1, <1>3, WhipPublishes DEF WhipAudioPublish
<1> QED BY <1>2, <1>3

LEMMA WhipAudioStep ==
  ASSUME IngestInd, NEW s \in WhipSessions, UNCHANGED srt, WhipAudio(s)
  PROVE  IngestInd'
<1> DEFINE b == whip[s].name
           x == streams[b] \cup {Audio}
           m == {}
<1>0. whip[s].at = "poll" /\ streams[b] # {}
  BY DEF WhipAudio
<1>1. /\ s \in WhipActive /\ s \in WhipOpen /\ b \in Broadcasts /\ x \subseteq Tracks
      /\ streams' = [streams EXCEPT ![b] = x] /\ <<b, Video>> \in ready
  <2>1. /\ s \in WhipActive /\ s \in WhipOpen /\ b \in Broadcasts /\ streams[b] \in SUBSET Tracks
        /\ <<b, Video>> \in ready
    BY <1>0, WhipUses
  <2> QED BY <2>1 DEF WhipAudio, Tracks
<1>2. UNCHANGED <<rows, killed, listening, handles, crowded, ready, fed, live>>
  BY DEF WhipAudio, shared, inventory, registry
<1>3. PICK w \in {"audio_push", "audio_init"} :
        Goto(s, w) /\ (Audio \in streams[b] <=> w = "audio_push")
  BY DEF WhipAudio
<1>4. Audio \in streams[b] /\ b \notin crowded => <<b, Audio>> \in ready
  BY <1>0, <1>1, WhipAlone
<1>5. /\ Audio \in x /\ b \notin crowded => <<b, Audio>> \in ready' \/ w = "audio_init"
      /\ w \in {"audio_push", "audio_publish"} => <<b, Audio>> \in ready' \/ b \in crowded
  BY <1>2, <1>3, <1>4
<1>6. /\ ready \subseteq ready' /\ ready' \subseteq Broadcasts \X Tracks
      /\ x # {} /\ m = {} /\ b = whip[s].name
      /\ fed' = fed \cup {<<b, t>> : t \in m} /\ live' = IF m = {} THEN live ELSE live \cup {b}
      /\ w \in WhipAt \ {"idle", "gone", "left"} /\ w \notin {"insert", "publish", "audio_publish"}
  BY <1>2 DEF IngestInd, TypeOK, SharedTypeOK, WhipAt
<1> HIDE DEF b, x, m
<1>7. Move(s, w, b, x, m)
  BY <1>1, <1>2, <1>3, <1>5, <1>6 DEF Move
<1> QED BY <1>7, WhipMoves

LEMMA WhipInsertStep ==
  ASSUME IngestInd, NEW s \in WhipSessions, UNCHANGED srt, WhipInsert(s)
  PROVE  IngestInd'
<1> DEFINE b == whip[s].name
           x == {Video}
           m == {}
           w == "push"
<1>0. whip[s].at = "insert"
  BY DEF WhipInsert
<1>1. /\ s \in WhipActive /\ s \in WhipOpen /\ b \in Broadcasts
      /\ streams' = [streams EXCEPT ![b] = x]
  BY <1>0, WhipUses DEF WhipInsert
<1>2. UNCHANGED <<rows, killed, listening, handles, crowded, ready, fed, live>>
  BY DEF WhipInsert, shared, inventory, registry
<1>3. <<b, Video>> \in ready'
  BY <1>0, <1>2 DEF IngestInd, VideoReady
<1>4. /\ ready \subseteq ready' /\ ready' \subseteq Broadcasts \X Tracks
      /\ x # {} /\ Audio \notin x /\ x \subseteq Tracks /\ m = {} /\ b = whip[s].name
      /\ fed' = fed \cup {<<b, t>> : t \in m} /\ live' = IF m = {} THEN live ELSE live \cup {b}
      /\ w \in WhipAt \ {"idle", "gone", "left"}
      /\ w \notin {"insert", "publish", "audio_push", "audio_publish"}
      /\ Goto(s, w)
  BY <1>2 DEF IngestInd, TypeOK, SharedTypeOK, WhipAt, WhipInsert, Tracks, Audio, Video
<1> HIDE DEF b, x, m, w
<1>5. Move(s, w, b, x, m)
  BY <1>1, <1>2, <1>3, <1>4 DEF Move
<1> QED BY <1>5, WhipMoves

\* Only the stream of the session's own name goes, and whoever still needs it
\* shares the name.
LEMMA WhipExitStep ==
  ASSUME IngestInd, NEW s \in WhipSessions, UNCHANGED srt, WhipExit(s)
  PROVE  IngestInd'
<1> DEFINE b == whip[s].name
<1>0. whip[s].at = "poll" /\ s \in WhipOpen /\ b \in Broadcasts
  BY WhipUses DEF WhipExit
<1>1. UNCHANGED <<rows, killed, listening, handles, crowded, ready, fed>>
  BY DEF WhipExit, inventory, registry
<1>2. Goto(s, "left") /\ "left" \in WhipAt \ {"idle", "gone"}
  BY DEF WhipExit, WhipAt
<1>3. /\ whip' \in [WhipSessions -> WhipTasks] /\ whip'[s].at = "left"
      /\ \A r \in WhipSessions : whip'[r].name = whip[r].name
      /\ \A r \in WhipSessions \ {s} : whip'[r] = whip[r]
  BY <1>2, WhipGoto
<1>4. /\ SrtTypeOK' /\ WhipOpen' = WhipOpen
      /\ Named' /\ Crowds' /\ RowsAreOpen'
  BY <1>0, <1>1, <1>2, WhipFrame
<1>5. streams \in [Broadcasts -> SUBSET Tracks]
  BY DEF IngestInd, TypeOK, WhipTypeOK
<1>6. /\ streams' \in [Broadcasts -> SUBSET Tracks] /\ streams'[b] = {}
      /\ \A c \in Broadcasts \ {b} : streams'[c] = streams[c]
  BY <1>0, <1>5 DEF WhipExit
<1>7. live' = IF streams[b] # {} THEN live \ {b} ELSE live
  BY DEF WhipExit, BroadcastStopped
<1> HIDE DEF b
<1>8. TypeOK'
  <2>1. WhipTypeOK'
    BY <1>1, <1>3, <1>6 DEF IngestInd, TypeOK, WhipTypeOK, WhipTasks
  <2> QED BY <1>1, <1>4, <1>7, <2>1 DEF IngestInd, TypeOK, SharedTypeOK, Sessions
<1>9. NoOrphanStream'
  <2> SUFFICES ASSUME NEW c \in Broadcasts, streams'[c] # {}
               PROVE  \E r \in WhipActive' : whip'[r].name = c
    BY DEF NoOrphanStream
  <2>1. c # b /\ streams[c] # {}
    BY <1>6
  <2>2. PICK r \in WhipActive : whip[r].name = c
    BY <2>1 DEF IngestInd, NoOrphanStream
  <2>3. r \in WhipSessions \ {s} /\ r \in WhipOpen /\ whip[r].at # "left"
    BY <2>1, <2>2 DEF WhipActive, WhipOpen, b
  <2>4. r \in WhipActive' /\ whip'[r].name = c
    BY <2>2, <2>3, <1>3, <1>4 DEF WhipActive
  <2> QED BY <2>4
<1>10. MediaHasInit' /\ SrtReady'
  BY <1>1 DEF IngestInd, MediaHasInit, SrtReady
<1>11. VideoReady'
  BY <1>1, <1>3, <1>6 DEF IngestInd, VideoReady
<1>12. AudioReady'
  <2>1. ASSUME NEW c \in Broadcasts \ crowded, Audio \in streams'[c]
        PROVE  \/ <<c, Audio>> \in ready
               \/ \E r \in WhipSessions : whip'[r].at = "audio_init" /\ whip'[r].name = c
    <3>1. Audio \in streams[c]
      BY <2>1, <1>6
    <3>2. \/ <<c, Audio>> \in ready
          \/ \E r \in WhipSessions : whip[r].at = "audio_init" /\ whip[r].name = c
      BY <3>1 DEF IngestInd, AudioReady
    <3> QED BY <3>2, <1>0, <1>3
  <2>2. \A r \in WhipSessions : whip'[r].at \in {"audio_push", "audio_publish"} =>
          <<whip'[r].name, Audio>> \in ready \/ whip'[r].name \in crowded
    BY <1>3 DEF IngestInd, AudioReady
  <2> QED BY <2>1, <2>2, <1>1 DEF AudioReady
<1>13. StreamHeld'
  <2> SUFFICES ASSUME NEW r \in WhipSessions, whip'[r].at \in {"publish", "audio_publish"},
                      whip'[r].name \notin crowded
               PROVE  streams'[whip'[r].name] # {}
    BY <1>1 DEF StreamHeld
  <2>1. r # s /\ whip'[r] = whip[r]
    BY <1>3
  <2>2. r \in WhipOpen /\ whip[r].name \in Broadcasts /\ streams[whip[r].name] # {}
    BY <2>1, WhipTask DEF IngestInd, StreamHeld
  <2>3. whip[r].name # b
    BY <2>1, <2>2, <1>0 DEF IngestInd, Crowds, b
  <2> QED BY <2>1, <2>2, <2>3, <1>6
<1>14. StopAhead'
  <2> SUFFICES ASSUME NEW c \in Broadcasts, c \notin crowded, c \in live'
               PROVE  \/ \E d \in SrtConns : srt[d].at = "recv" /\ srt[d].name = c
                      \/ streams'[c] # {}
    BY <1>1 DEF StopAhead
  <2>1. c \in live /\ (c = b => streams[c] = {})
    BY <1>7
  <2>2. \/ \E d \in SrtConns : srt[d].at = "recv" /\ srt[d].name = c
        \/ streams[c] # {}
    BY <2>1 DEF IngestInd, StopAhead
  <2> QED BY <2>1, <2>2, <1>6
<1> QED BY <1>4, <1>8, <1>9, <1>10, <1>11, <1>12, <1>13, <1>14 DEF IngestInd

\* Only the row of the session's own name goes, so every other row keeps an
\* open session behind it.
LEMMA WhipDeregisterStep ==
  ASSUME IngestInd, NEW s \in WhipSessions, UNCHANGED srt, WhipDeregister(s)
  PROVE  IngestInd'
<1> USE DEF WhipDeregister, deregister, DropToken, registry
<1>0. whip[s].at = "left" /\ s \in WhipOpen /\ whip[s].name \in Broadcasts
  BY WhipTask
<1>1. /\ whip' \in [WhipSessions -> WhipTasks] /\ whip'[s].at = "gone"
      /\ \A r \in WhipSessions \ {s} : whip'[r] = whip[r]
  BY WhipTask DEF WhipTasks, NoWhip, WhipAt
<1>2. WhipOpen' = WhipOpen \ {s} /\ WhipOpen \subseteq WhipSessions /\ SrtOpen' = SrtOpen
  BY <1>1 DEF WhipOpen, SrtOpen
<1>3. WhipActive' = WhipActive /\ s \notin WhipActive
  BY <1>0, <1>1, <1>2 DEF WhipActive
<1>4. TypeOK'
  <2>1. rows' \in [Broadcasts -> Sessions \cup {None}] /\ Sessions' = Sessions
    BY DEF IngestInd, TypeOK, SharedTypeOK, Sessions
  <2>2. WhipTypeOK' /\ SrtTypeOK'
    BY <1>1 DEF IngestInd, TypeOK, WhipTypeOK, SrtTypeOK, WhipTasks
  <2> QED BY <2>1, <2>2 DEF IngestInd, TypeOK, SharedTypeOK
<1>5. Named' /\ Crowds'
  BY <1>1, <1>2 DEF IngestInd, Named, Crowds
<1>6. RowsAreOpen'
  <2> SUFFICES ASSUME NEW x \in Broadcasts, rows'[x] # None
               PROVE  rows'[x] \in Open' /\ NameOf(rows[x])' = x
    BY DEF RowsAreOpen
  <2>1. x # whip[s].name /\ rows'[x] = rows[x]
    OBVIOUS
  <2>2. rows[x] \in Open /\ NameOf(rows[x]) = x
    BY <2>1 DEF IngestInd, RowsAreOpen
  <2>3. rows[x] # s
    BY <2>1, <2>2, SessionsAssumption DEF NameOf
  <2>4. rows[x] \in SrtConns \/ rows[x] \in WhipSessions
    BY <2>2 DEF Open, SrtOpen, WhipOpen
  <2>5. NameOf(rows[x])' = NameOf(rows[x])
    BY <2>1, <2>3, <2>4, <1>1 DEF NameOf
  <2>6. rows'[x] \in Open'
    BY <2>1, <2>2, <2>3, <1>2 DEF Open
  <2> QED BY <2>2, <2>5, <2>6
<1>7. NoOrphanStream'
  BY <1>1, <1>2, <1>3 DEF IngestInd, NoOrphanStream, WhipActive
<1>8. MediaHasInit' /\ SrtReady' /\ VideoReady'
  BY <1>1 DEF IngestInd, MediaHasInit, SrtReady, VideoReady
<1>9. AudioReady' /\ StreamHeld'
  BY <1>0, <1>1 DEF IngestInd, AudioReady, StreamHeld
<1>10. StopAhead'
  BY DEF IngestInd, StopAhead
<1> QED BY <1>4, <1>5, <1>6, <1>7, <1>8, <1>9, <1>10 DEF IngestInd

\* A session that opens crowds a name another one is open for.
LEMMA WhipOfferStep ==
  ASSUME IngestInd, NEW s \in WhipSessions, NEW b \in Broadcasts, UNCHANGED srt, WhipOffer(s, b)
  PROVE  IngestInd'
<1> USE DEF WhipOffer, register, registry
<1>0. whip[s].at = "idle" /\ s \notin WhipOpen
  BY DEF WhipOpen
<1>1. /\ whip' \in [WhipSessions -> WhipTasks] /\ whip'[s].at = "poll" /\ whip'[s].name = b
      /\ \A r \in WhipSessions \ {s} : whip'[r] = whip[r]
  BY WhipTask DEF WhipTasks, WhipAt
<1>2. WhipOpen' = WhipOpen \cup {s} /\ WhipOpen \subseteq WhipSessions /\ SrtOpen' = SrtOpen
  BY <1>1 DEF WhipOpen, SrtOpen
<1>3. WhipActive \subseteq WhipActive' /\ s \notin WhipActive
  BY <1>0, <1>1, <1>2 DEF WhipActive
<1>4. crowded \subseteq crowded' /\ (\A r \in WhipOpen : whip[r].name = b => b \in crowded')
  OBVIOUS
<1>5. TypeOK'
  <2>1. rows' \in [Broadcasts -> Sessions \cup {None}] /\ Sessions' = Sessions
    BY DEF IngestInd, TypeOK, SharedTypeOK, Sessions
  <2>2. WhipTypeOK' /\ SrtTypeOK'
    BY <1>1 DEF IngestInd, TypeOK, WhipTypeOK, SrtTypeOK, WhipTasks
  <2> QED BY <2>1, <2>2 DEF IngestInd, TypeOK, SharedTypeOK
<1>6. Named'
  BY <1>0, <1>1, <1>2 DEF IngestInd, Named
<1>7. Crowds'
  <2> SUFFICES ASSUME NEW q \in WhipOpen', NEW r \in WhipOpen', q # r, whip'[q].name = whip'[r].name
               PROVE  whip'[r].name \in crowded'
    BY DEF Crowds
  <2>1. CASE q = s
    BY <2>1, <1>1, <1>2, <1>4
  <2>2. CASE r = s
    BY <2>2, <1>1, <1>2, <1>4
  <2>3. CASE q # s /\ r # s
    BY <2>3, <1>1, <1>2, <1>4 DEF IngestInd, Crowds
  <2> QED BY <2>1, <2>2, <2>3
<1>8. RowsAreOpen'
  <2> SUFFICES ASSUME NEW x \in Broadcasts, rows'[x] # None
               PROVE  rows'[x] \in Open' /\ NameOf(rows[x])' = x
    BY DEF RowsAreOpen
  <2>0. rows \in [Broadcasts -> Sessions \cup {None}]
    BY DEF IngestInd, TypeOK, SharedTypeOK
  <2>1. CASE x = b
    BY <2>0, <2>1, <1>1, <1>2, SessionsAssumption DEF Open, NameOf
  <2>2. CASE x # b
    <3>1. rows'[x] = rows[x] /\ rows[x] \in Open /\ NameOf(rows[x]) = x
      BY <2>0, <2>2 DEF IngestInd, RowsAreOpen
    <3>2. rows[x] # s
      BY <3>1, <1>0, SessionsAssumption DEF Open, SrtOpen
    <3>3. rows[x] \in SrtConns \/ rows[x] \in WhipSessions
      BY <3>1 DEF Open, SrtOpen, WhipOpen
    <3>4. NameOf(rows[x])' = NameOf(rows[x])
      BY <3>1, <3>2, <3>3, <1>1 DEF NameOf
    <3>5. rows'[x] \in Open'
      BY <3>1, <1>2 DEF Open
    <3> QED BY <3>1, <3>4, <3>5
  <2> QED BY <2>1, <2>2
<1>9. NoOrphanStream'
  BY <1>1, <1>2, <1>3 DEF IngestInd, NoOrphanStream, WhipActive
<1>10. MediaHasInit' /\ SrtReady' /\ VideoReady'
  BY <1>1, <1>4 DEF IngestInd, MediaHasInit, SrtReady, VideoReady
<1>11. AudioReady' /\ StreamHeld'
  BY <1>0, <1>1, <1>4 DEF IngestInd, AudioReady, StreamHeld
<1>12. StopAhead'
  BY <1>4 DEF IngestInd, StopAhead
<1> QED BY <1>5, <1>6, <1>7, <1>8, <1>9, <1>10, <1>11, <1>12 DEF IngestInd

\* The handler of DELETE lets go of the session and cancels its token.
LEMMA WhipTerminateStep ==
  ASSUME IngestInd, NEW s \in WhipSessions, UNCHANGED srt, WhipTerminate(s)
  PROVE  IngestInd'
<1>1. UNCHANGED <<srt, whip, streams, crowded, rows, listening, ready, fed, live>>
  BY DEF WhipTerminate, registry
<1>2. killed' \subseteq Sessions /\ handles' \subseteq WhipSessions
  BY DEF WhipTerminate, IngestInd, TypeOK, SharedTypeOK, WhipTypeOK, WhipOpen, Sessions
<1>3. SrtOpen' = SrtOpen /\ WhipOpen' = WhipOpen /\ WhipActive' = WhipActive
  BY <1>1 DEF SrtOpen, WhipOpen, WhipActive
<1>4. TypeOK' /\ Named' /\ Crowds' /\ NoOrphanStream'
  BY <1>1, <1>2, <1>3
  DEF IngestInd, TypeOK, SharedTypeOK, SrtTypeOK, WhipTypeOK, Named, Crowds, NoOrphanStream, Sessions
<1>5. RowsAreOpen' /\ MediaHasInit' /\ SrtReady' /\ VideoReady'
  BY <1>1, <1>3 DEF IngestInd, RowsAreOpen, Open, NameOf, MediaHasInit, SrtReady, VideoReady
<1>6. AudioReady' /\ StreamHeld' /\ StopAhead'
  BY <1>1 DEF IngestInd, AudioReady, StreamHeld, StopAhead
<1> QED BY <1>4, <1>5, <1>6 DEF IngestInd

LEMMA WhipServerStep ==
  ASSUME IngestInd, NEW s \in WhipSessions, WhipNext(s), UNCHANGED srt
  PROVE  IngestInd'
<1>1. CASE \E b \in Broadcasts : WhipOffer(s, b)
  BY <1>1, WhipOfferStep
<1>2. CASE WhipTerminate(s)
  BY <1>2, WhipTerminateStep
<1>3. CASE WhipSample(s) \/ WhipRefused(s) \/ WhipPush(s) \/ WhipAudioPush(s)
  BY <1>3, WhipLookSteps
<1>4. CASE WhipAudio(s)
  BY <1>4, WhipAudioStep
<1>5. CASE WhipCreate(s) \/ WhipAudioInit(s)
  BY <1>5, WhipInitSteps
<1>6. CASE WhipInsert(s)
  BY <1>6, WhipInsertStep
<1>7. CASE WhipPublish(s) \/ WhipAudioPublish(s)
  BY <1>7, WhipPublishSteps
<1>8. CASE WhipDeregister(s)
  BY <1>8, WhipDeregisterStep
<1>9. CASE WhipDisconnected(s) \/ WhipCancelled(s)
  BY <1>9, WhipExitStep DEF WhipDisconnected, WhipCancelled
<1> QED BY <1>1, <1>2, <1>3, <1>4, <1>5, <1>6, <1>7, <1>8, <1>9 DEF WhipNext, WhipStep
-----------------------------------------------------------------------------
(* The servers side by side.                                               *)

\* The demuxer and a stuttering step leave the servers alone.
LEMMA ServersStand == ASSUME IngestInd, UNCHANGED servers PROVE IngestInd'
<1>1. UNCHANGED <<srt, whip, streams, handles, crowded, rows, killed, listening, ready, fed, live>>
  BY DEF servers, shared, inventory, registry
<1>2. SrtOpen' = SrtOpen /\ WhipOpen' = WhipOpen /\ WhipActive' = WhipActive
  BY <1>1 DEF SrtOpen, WhipOpen, WhipActive
<1>3. TypeOK' /\ Named' /\ Crowds' /\ NoOrphanStream'
  BY <1>1, <1>2
  DEF IngestInd, TypeOK, SharedTypeOK, SrtTypeOK, WhipTypeOK, Named, Crowds, NoOrphanStream, Sessions
<1>4. RowsAreOpen' /\ MediaHasInit' /\ SrtReady' /\ VideoReady'
  BY <1>1, <1>2 DEF IngestInd, RowsAreOpen, Open, NameOf, MediaHasInit, SrtReady, VideoReady
<1>5. AudioReady' /\ StreamHeld' /\ StopAhead'
  BY <1>1 DEF IngestInd, AudioReady, StreamHeld, StopAhead
<1> QED BY <1>3, <1>4, <1>5 DEF IngestInd

LEMMA NextSInv == IngestInd /\ [Next]_vars => IngestInd'
<1> SUFFICES ASSUME IngestInd, [Next]_vars PROVE IngestInd'
  OBVIOUS
<1>1. CASE Srt
  BY <1>1, SrtStep DEF Srt
<1>2. CASE Whip
  BY <1>2, WhipServerStep DEF Whip
<1>3. CASE Admin
  BY <1>3, AdminStep
<1>4. CASE UNCHANGED servers
  BY <1>4, ServersStand
<1> QED BY <1>1, <1>2, <1>3, <1>4 DEF Next, vars

\* Whoever is behind a live name is an open session of that name.
LEMMA SInvIsEnough == IngestInd => SessionsInv
<1> SUFFICES ASSUME IngestInd PROVE StopIsLast
  BY DEF IngestInd, SessionsInv
<1> SUFFICES ASSUME NEW b \in Broadcasts, b \notin crowded, b \in live
             PROVE  \E s \in Open : NameOf(s) = b
  BY DEF StopIsLast
<1>1. CASE \E c \in SrtConns : srt[c].at = "recv" /\ srt[c].name = b
  BY <1>1 DEF Open, SrtOpen, NameOf
<1>2. CASE streams[b] # {}
  <2>1. PICK s \in WhipActive : whip[s].name = b
    BY <1>2 DEF IngestInd, NoOrphanStream
  <2>2. s \in WhipSessions /\ s \notin SrtConns /\ s \in Open
    BY <2>1, SessionsAssumption DEF WhipActive, WhipOpen, Open
  <2> QED BY <2>1, <2>2 DEF NameOf
<1> QED BY <1>1, <1>2 DEF IngestInd, StopAhead

\* For any number of SRT connections, WHIP sessions and names, in every state
\* the servers reach: the inventory lists open sessions under their own names,
\* the bridge keeps no stream nobody will remove, consumers that meet a
\* fragment find its init segment, and the stop of a name is announced after
\* its last fragment.  The last two except names that two WHIP sessions
\* published at once (crowded).
THEOREM SessionsAgree == Spec => []SessionsInv
<1>1. Spec => []IngestInd
  BY IngestIndBegins, NextSInv, PTL DEF Spec
<1> QED BY <1>1, SInvIsEnough, PTL


-----------------------------------------------------------------------------
(* The DASH server.                                                        *)

Feeders == [at : {"none", "wait", "init", "segment", "ended"}, pos : 0..MaxEmitted,
            seq : 0..MaxEmitted, last : Inits, hand : Inits \cup (Runs \X {0})]
Casters == [open : BOOLEAN, init : 0..MaxInit, emitted : 0..MaxEmitted]
Segments == [run : Runs, frag : 0..MaxEmitted, init : Inits]
Tables == UNION {[1..n -> Segments] : n \in 0..MaxEmitted}

\* Everything has its type, the segment table included.
DashShape ==
  /\ caster \in [Runs -> Casters] /\ feeder \in [Runs -> Feeders]
  /\ shown \in [init : Inits, segments : Tables, latest : 0..MaxEmitted]
  /\ finalized \in BOOLEAN /\ overtaken \in BOOLEAN

\* A drain has read no more than was emitted and numbered no more than it has
\* read; the fragment in its hand has no number yet, and its init is a real one.
DrainInOrder ==
  \A p \in Runs :
    /\ caster[p].emitted > 0 => caster[p].init > 0
    /\ feeder[p].pos <= caster[p].emitted
    /\ feeder[p].seq <= feeder[p].pos
    /\ feeder[p].at \in {"init", "segment"} => feeder[p].seq < feeder[p].pos
    /\ feeder[p].at = "init" => feeder[p].hand \in Runs \X (1..MaxInit)
    /\ feeder[p].at = "segment" => feeder[p].last # NoInit

\* No drain is ahead of the newest number.
NumbersReached == \A p \in Runs : feeder[p].seq <= shown.latest

\* NewestRunServed at every step of the drain, and every fragment that has a
\* number precedes the one in its hand.
RunServed ==
  \A p \in Runs :
    feeder[p].last # NoInit /\ ~overtaken /\ ~Late(p) =>
      /\ shown.init = feeder[p].last
      /\ \A n \in 1..feeder[p].seq :
           /\ shown.segments[n].init = feeder[p].last
           /\ shown.segments[n].frag <= feeder[p].pos
           /\ feeder[p].at \in {"init", "segment"} => shown.segments[n].frag < feeder[p].pos
           /\ n > 1 => shown.segments[n].frag > shown.segments[n - 1].frag

\* The inductive invariant of the DASH server.
DInv == DashShape /\ DrainInOrder /\ NumbersReached /\ NumbersContiguous /\ RunServed

LEMMA DInvImplies == DInv => DashInv
<1> SUFFICES ASSUME DInv PROVE DashInv
  OBVIOUS
<1>1. DashTypeOK
  BY DEF DInv, DashShape, DashTypeOK, Casters, Feeders
<1>2. NumbersContiguous
  BY DEF DInv
<1>3. NewestRunServed
  BY DEF DInv, RunServed, NewestRunServed
<1> QED BY <1>1, <1>2, <1>3 DEF DashInv

LEMMA InitDInv == DashInit => DInv
<1> SUFFICES ASSUME DashInit PROVE DInv
  OBVIOUS
<1>1. NoInit \in Inits
  BY DEF Inits
<1>2. NoCaster \in Casters /\ NoFeeder \in Feeders
  BY <1>1, DashAssumption DEF NoCaster, Casters, NoFeeder, Feeders
<1>3. shown \in [init : Inits, segments : Tables, latest : 0..MaxEmitted]
      /\ shown.latest = 0 /\ DOMAIN shown.segments = {}
  <2>1. <<>> \in [1..0 -> Segments] /\ 0 \in 0..MaxEmitted
    BY DashAssumption
  <2>2. <<>> \in Tables
    BY <2>1 DEF Tables
  <2> QED BY <1>1, <2>1, <2>2 DEF DashInit
<1>4. DashShape
  BY <1>2, <1>3 DEF DashInit, DashShape
<1>5. \A p \in Runs : caster[p] = NoCaster /\ feeder[p] = NoFeeder
  BY DEF DashInit
<1>6. DrainInOrder
  BY <1>5 DEF DrainInOrder, NoCaster, NoFeeder
<1>7. NumbersReached
  BY <1>3, <1>5 DEF NumbersReached, NoFeeder
<1>8. NumbersContiguous
  BY <1>3 DEF NumbersContiguous
<1>9. RunServed
  BY <1>5 DEF RunServed, NoFeeder
<1> QED BY <1>4, <1>6, <1>7, <1>8, <1>9 DEF DInv

\* The publisher's steps: no drain reads, and no fragment precedes its init.
LEMMA CasterSteps ==
  ASSUME DInv, NEW p \in Runs, SetInit(p) \/ DashEmit(p) \/ DashUnpublish(p)
  PROVE  DInv'
<1>1. UNCHANGED <<feeder, shown, finalized, overtaken>>
  BY DEF SetInit, DashEmit, DashUnpublish
<1>2. caster \in [Runs -> Casters] /\ caster[p] \in Casters
  BY DEF DInv, DashShape
<1>3. /\ caster' \in [Runs -> Casters]
      /\ caster'[p].emitted >= caster[p].emitted
      /\ caster'[p].emitted > 0 => caster'[p].init > 0
      /\ \A q \in Runs : q # p => caster'[q] = caster[q]
  <2>1. CASE SetInit(p)
    <3>1. caster[p].init + 1 \in 0..MaxInit /\ caster[p].init + 1 > 0
      BY <1>2, <2>1, DashAssumption DEF SetInit, Casters
    <3> QED BY <1>2, <2>1, <3>1 DEF SetInit, Casters
  <2>2. CASE DashEmit(p)
    <3> DEFINE e == caster[p].emitted + 1
    <3>1. e \in 0..MaxEmitted /\ e >= caster[p].emitted /\ caster[p].init > 0
      BY <1>2, <2>2, DashAssumption DEF DashEmit, Casters
    <3>2. caster' = [caster EXCEPT ![p].emitted = e]
      BY <2>2 DEF DashEmit
    <3> HIDE DEF e
    <3>3. caster'[p].emitted = e /\ caster'[p].init = caster[p].init
      BY <1>2, <3>2 DEF Casters
    <3>4. caster' \in [Runs -> Casters]
      BY <1>2, <3>1, <3>2 DEF Casters
    <3>5. \A q \in Runs : q # p => caster'[q] = caster[q]
      BY <1>2, <3>2
    <3> QED BY <3>1, <3>3, <3>4, <3>5
  <2>3. CASE DashUnpublish(p)
    <3>1. /\ caster[p].emitted > 0 => caster[p].init > 0
          /\ caster[p].emitted \in 0..MaxEmitted
      BY <1>2 DEF DInv, DrainInOrder, Casters
    <3>2. /\ caster' \in [Runs -> Casters] /\ \A q \in Runs : q # p => caster'[q] = caster[q]
          /\ caster'[p].emitted = caster[p].emitted /\ caster'[p].init = caster[p].init
      BY <1>2, <2>3 DEF DashUnpublish, Casters
    <3> QED BY <3>1, <3>2, DashAssumption
  <2> QED BY <2>1, <2>2, <2>3
<1>4. DashShape'
  BY <1>1, <1>3 DEF DInv, DashShape
<1>5. DrainInOrder'
  <2> SUFFICES ASSUME NEW q \in Runs
               PROVE  /\ caster'[q].emitted > 0 => caster'[q].init > 0
                      /\ feeder[q].pos <= caster'[q].emitted
    BY <1>1 DEF DInv, DrainInOrder
  <2>1. feeder[q].pos \in Nat /\ caster[q].emitted \in Nat /\ caster'[q].emitted \in Nat
    BY <1>3, DashAssumption DEF DInv, DashShape, Feeders, Casters
  <2> QED BY <1>3, <2>1 DEF DInv, DrainInOrder
<1>6. NumbersReached' /\ NumbersContiguous' /\ RunServed'
  BY <1>1 DEF DInv, NumbersReached, NumbersContiguous, RunServed, Late
<1> QED BY <1>4, <1>5, <1>6 DEF DInv

LEMMA DashPublishStep == ASSUME DInv, NEW p \in Runs, DashPublish(p) PROVE DInv'
<1>1. UNCHANGED <<shown, finalized, overtaken>>
  BY DEF DashPublish
<1>2. /\ caster \in [Runs -> Casters] /\ caster[p] \in Casters
      /\ feeder \in [Runs -> Feeders] /\ feeder[p] \in Feeders
  BY DEF DInv, DashShape
<1>3. /\ caster' \in [Runs -> Casters] /\ feeder' \in [Runs -> Feeders]
      /\ \A q \in Runs : q # p => caster'[q] = caster[q] /\ feeder'[q] = feeder[q]
      /\ caster'[p].emitted = caster[p].emitted /\ caster'[p].init = caster[p].init
      /\ feeder'[p].at = "wait" /\ feeder'[p].pos = feeder[p].pos /\ feeder'[p].seq = feeder[p].seq
      /\ feeder'[p].last = feeder[p].last
  BY <1>2 DEF DashPublish, Casters, Feeders
<1>4. DashShape'
  BY <1>1, <1>3 DEF DInv, DashShape
<1>5. DrainInOrder'
  <2> SUFFICES ASSUME NEW q \in Runs
      PROVE /\ caster'[q].emitted > 0 => caster'[q].init > 0
            /\ feeder'[q].pos <= caster'[q].emitted
            /\ feeder'[q].seq <= feeder'[q].pos
            /\ feeder'[q].at \in {"init", "segment"} => feeder'[q].seq < feeder'[q].pos
            /\ feeder'[q].at = "init" => feeder'[q].hand \in Runs \X (1..MaxInit)
            /\ feeder'[q].at = "segment" => feeder'[q].last # NoInit
    BY DEF DrainInOrder
  <2>1. CASE q = p
    BY <1>3, <2>1 DEF DInv, DrainInOrder
  <2>2. CASE q # p
    BY <1>3, <2>2 DEF DInv, DrainInOrder
  <2> QED BY <2>1, <2>2
<1>6. \A q \in Runs : feeder'[q].last = feeder[q].last /\ feeder'[q].seq = feeder[q].seq
                       /\ feeder'[q].pos = feeder[q].pos
  BY <1>3
<1>7. NumbersReached' /\ NumbersContiguous'
  BY <1>1, <1>6 DEF DInv, NumbersReached, NumbersContiguous
<1>8. \A q \in Runs : Late(q)' <=> Late(q)
  BY <1>6 DEF Late
<1>9. RunServed'
  BY <1>1, <1>3, <1>6, <1>8 DEF DInv, RunServed
<1> QED BY <1>4, <1>5, <1>7, <1>9 DEF DInv

\* The ring gives a fragment that was emitted and not read.
LEMMA NextInRange ==
  ASSUME DInv, NEW p \in Runs, feeder[p].pos < caster[p].emitted
  PROVE  NextIn(p) \in 0..MaxEmitted /\ feeder[p].pos < NextIn(p) /\ NextIn(p) <= caster[p].emitted
<1>1. feeder[p].pos \in 0..MaxEmitted /\ caster[p].emitted \in 0..MaxEmitted
  BY DEF DInv, DashShape, Feeders, Casters
<1> QED BY <1>1, DashAssumption DEF NextIn

LEMMA TakeFragmentStep == ASSUME DInv, NEW p \in Runs, TakeFragment(p) PROVE DInv'
<1>1. UNCHANGED <<caster, shown, finalized, overtaken>> /\ feeder[p].pos < caster[p].emitted
  BY DEF TakeFragment
<1>2. /\ caster \in [Runs -> Casters] /\ caster[p] \in Casters
      /\ feeder \in [Runs -> Feeders] /\ feeder[p] \in Feeders
  BY DEF DInv, DashShape
<1> DEFINE n == NextIn(p)
           i == caster[p].init
<1>3. n \in 0..MaxEmitted /\ feeder[p].pos < n /\ n <= caster[p].emitted
  BY <1>1, NextInRange
<1>4. i \in 1..MaxInit
  <2>1. i \in 0..MaxInit /\ caster[p].emitted > 0
    BY <1>1, <1>2, DashAssumption DEF Casters, Feeders
  <2> QED BY <2>1, DashAssumption DEF DInv, DrainInOrder
<1>5. <<p, i>> \in Runs \X (1..MaxInit) /\ <<p, i>> \in Inits /\ <<p, i>> # NoInit
  BY <1>4, DashAssumption DEF Inits, NoInit
<1> HIDE DEF n, i
<1>6. feeder' = [feeder EXCEPT ![p].pos = n, ![p].hand = <<p, i>>,
                    ![p].at = IF feeder[p].last = <<p, i>> THEN "segment" ELSE "init"]
  BY DEF TakeFragment, n, i
<1>7. /\ feeder' \in [Runs -> Feeders]
      /\ feeder'[p].pos = n /\ feeder'[p].hand = <<p, i>>
      /\ feeder'[p].at \in {"segment", "init"}
      /\ feeder'[p].at = "segment" => feeder[p].last = <<p, i>>
      /\ feeder'[p].seq = feeder[p].seq /\ feeder'[p].last = feeder[p].last
      /\ \A q \in Runs : q # p => feeder'[q] = feeder[q]
  BY <1>2, <1>3, <1>5, <1>6 DEF Feeders
<1>8. DashShape'
  BY <1>1, <1>7 DEF DInv, DashShape
<1>9. feeder[p].seq \in Nat /\ feeder[p].pos \in Nat /\ n \in Nat /\ feeder[p].seq <= feeder[p].pos
  BY <1>2, <1>3, DashAssumption DEF Feeders, DInv, DrainInOrder
<1>10. DrainInOrder'
  <2> SUFFICES ASSUME NEW q \in Runs
      PROVE /\ caster[q].emitted > 0 => caster[q].init > 0
            /\ feeder'[q].pos <= caster[q].emitted
            /\ feeder'[q].seq <= feeder'[q].pos
            /\ feeder'[q].at \in {"init", "segment"} => feeder'[q].seq < feeder'[q].pos
            /\ feeder'[q].at = "init" => feeder'[q].hand \in Runs \X (1..MaxInit)
            /\ feeder'[q].at = "segment" => feeder'[q].last # NoInit
    BY <1>1 DEF DrainInOrder
  <2>1. CASE q = p
    BY <1>3, <1>5, <1>7, <1>9, <2>1 DEF DInv, DrainInOrder
  <2>2. CASE q # p
    BY <1>7, <2>2 DEF DInv, DrainInOrder
  <2> QED BY <2>1, <2>2
<1>11. NumbersReached' /\ NumbersContiguous'
  BY <1>1, <1>7 DEF DInv, NumbersReached, NumbersContiguous
<1>12. RunServed'
  <2>1. \A q \in Runs : feeder'[q].last = feeder[q].last /\ feeder'[q].seq = feeder[q].seq
    BY <1>7
  <2>2. \A q \in Runs : Late(q)' <=> Late(q)
    BY <2>1 DEF Late
  <2> SUFFICES ASSUME NEW q \in Runs, feeder[q].last # NoInit, ~ overtaken, ~ Late(q),
                      NEW k \in 1..feeder[q].seq
      PROVE /\ shown.init = feeder[q].last
            /\ shown.segments[k].init = feeder[q].last
            /\ shown.segments[k].frag <= feeder'[q].pos
            /\ feeder'[q].at \in {"init", "segment"} => shown.segments[k].frag < feeder'[q].pos
            /\ k > 1 => shown.segments[k].frag > shown.segments[k - 1].frag
    BY <1>1, <2>1, <2>2 DEF RunServed, DInv
  <2>3. /\ shown.init = feeder[q].last
        /\ shown.segments[k].init = feeder[q].last
        /\ shown.segments[k].frag <= feeder[q].pos
        /\ feeder[q].at \in {"init", "segment"} => shown.segments[k].frag < feeder[q].pos
        /\ k > 1 => shown.segments[k].frag > shown.segments[k - 1].frag
    BY DEF RunServed, DInv
  <2>4. CASE q = p
    <3>1. shown.segments[k].frag \in Nat
      <4>1. shown.segments \in Tables /\ k \in DOMAIN shown.segments
        <5>1. feeder[q].seq \in Nat /\ shown.latest \in Nat /\ feeder[q].seq <= shown.latest
          BY DashAssumption DEF DInv, DashShape, Feeders, NumbersReached
        <5> QED BY <5>1 DEF DInv, DashShape, NumbersContiguous
      <4>2. shown.segments[k] \in Segments
        BY <4>1 DEF Tables
      <4> QED BY <4>2, DashAssumption DEF Segments
    <3> QED BY <1>3, <1>7, <1>9, <2>3, <2>4, <3>1
  <2>5. CASE q # p
    BY <1>7, <2>3, <2>5
  <2> QED BY <2>4, <2>5
<1> QED BY <1>8, <1>10, <1>11, <1>12 DEF DInv

\* A drain that writes has overtaken nobody, or the history says so: of the
\* others, only a later one could have begun, and it makes this one late.
LEMMA WritersAlone ==
  ASSUME DInv, NEW p \in Runs, NEW q \in Runs, q # p,
         overtaken' = (overtaken \/ Late(p)), feeder'[p].last # NoInit,
         feeder'[q] = feeder[q], feeder'[q].last # NoInit, ~ overtaken', ~ Late(q)'
  PROVE  FALSE
<1>1. p \in Nat /\ q \in Nat
  BY DashAssumption
<1>2. CASE q > p
  BY <1>2 DEF Late
<1>3. CASE p > q
  BY <1>3 DEF Late
<1> QED BY <1>1, <1>2, <1>3

LEMMA PushInitStep == ASSUME DInv, NEW p \in Runs, PushInit(p) PROVE DInv'
<1>1. UNCHANGED <<caster, finalized>> /\ feeder[p].at = "init" /\ overtaken' = (overtaken \/ Late(p))
  BY DEF PushInit
<1>2. /\ feeder \in [Runs -> Feeders] /\ feeder[p] \in Feeders
      /\ shown \in [init : Inits, segments : Tables, latest : 0..MaxEmitted]
  BY DEF DInv, DashShape
<1>3. feeder[p].hand \in Runs \X (1..MaxInit)
  BY <1>1 DEF DInv, DrainInOrder
<1>4. feeder[p].hand \in Inits /\ feeder[p].hand # NoInit
  BY <1>3, DashAssumption DEF Inits, NoInit
<1>5. /\ feeder' \in [Runs -> Feeders]
      /\ feeder'[p].last = feeder[p].hand /\ feeder'[p].seq = 0 /\ feeder'[p].at = "segment"
      /\ feeder'[p].pos = feeder[p].pos /\ feeder'[p].hand = feeder[p].hand
      /\ \A q \in Runs : q # p => feeder'[q] = feeder[q]
  BY <1>2, <1>4, DashAssumption DEF PushInit, Feeders
<1>6. /\ shown' \in [init : Inits, segments : Tables, latest : 0..MaxEmitted]
      /\ shown'.init = feeder[p].hand /\ shown'.segments = shown.segments /\ shown'.latest = shown.latest
  BY <1>2, <1>4 DEF PushInit
<1>7. DashShape'
  BY <1>1, <1>5, <1>6 DEF DInv, DashShape
<1>8. feeder[p].seq \in Nat /\ feeder[p].pos \in Nat /\ feeder[p].seq < feeder[p].pos
  BY <1>1, <1>2, DashAssumption DEF Feeders, DInv, DrainInOrder
<1>9. DrainInOrder'
  <2> SUFFICES ASSUME NEW q \in Runs
      PROVE /\ caster[q].emitted > 0 => caster[q].init > 0
            /\ feeder'[q].pos <= caster[q].emitted
            /\ feeder'[q].seq <= feeder'[q].pos
            /\ feeder'[q].at \in {"init", "segment"} => feeder'[q].seq < feeder'[q].pos
            /\ feeder'[q].at = "init" => feeder'[q].hand \in Runs \X (1..MaxInit)
            /\ feeder'[q].at = "segment" => feeder'[q].last # NoInit
    BY <1>1 DEF DrainInOrder
  <2>1. CASE q = p
    BY <1>4, <1>5, <1>8, <2>1 DEF DInv, DrainInOrder
  <2>2. CASE q # p
    BY <1>5, <2>2 DEF DInv, DrainInOrder
  <2> QED BY <2>1, <2>2
<1>10. NumbersContiguous'
  BY <1>6 DEF DInv, NumbersContiguous
<1>11. NumbersReached'
  <2>1. shown.latest \in Nat
    BY <1>2, DashAssumption
  <2> QED BY <1>5, <1>6, <2>1 DEF DInv, NumbersReached
<1>12. RunServed'
  <2> SUFFICES ASSUME NEW q \in Runs, feeder'[q].last # NoInit, ~ overtaken', ~ Late(q)'
      PROVE /\ shown'.init = feeder'[q].last
            /\ \A n \in 1..feeder'[q].seq :
                 /\ shown'.segments[n].init = feeder'[q].last
                 /\ shown'.segments[n].frag <= feeder'[q].pos
                 /\ feeder'[q].at \in {"init", "segment"} => shown'.segments[n].frag < feeder'[q].pos
                 /\ n > 1 => shown'.segments[n].frag > shown'.segments[n - 1].frag
    BY DEF RunServed
  <2>1. q = p
    BY <1>1, <1>4, <1>5, WritersAlone
  <2> QED BY <1>5, <1>6, <2>1
<1> QED BY <1>7, <1>9, <1>10, <1>11, <1>12 DEF DInv

LEMMA PushSegmentStep == ASSUME DInv, NEW p \in Runs, PushSegment(p) PROVE DInv'
<1> DEFINE n == feeder[p].seq + 1
           seg == Segment(p)
           segs == shown.segments
<1>1. UNCHANGED <<caster, finalized>> /\ feeder[p].at = "segment" /\ overtaken' = (overtaken \/ Late(p))
  BY DEF PushSegment
<1>2. /\ feeder \in [Runs -> Feeders] /\ feeder[p] \in Feeders
      /\ shown \in [init : Inits, segments : Tables, latest : 0..MaxEmitted]
  BY DEF DInv, DashShape
<1>3. /\ feeder[p].seq \in Nat /\ feeder[p].pos \in 0..MaxEmitted /\ feeder[p].seq < feeder[p].pos
      /\ shown.latest \in 0..MaxEmitted /\ feeder[p].seq <= shown.latest
      /\ feeder[p].last # NoInit /\ feeder[p].last \in Inits
  BY <1>1, <1>2, DashAssumption DEF Feeders, DInv, DrainInOrder, NumbersReached
<1>4. n \in 1..MaxEmitted /\ n <= feeder[p].pos /\ n <= shown.latest + 1 /\ n \in Nat
  BY <1>3, DashAssumption
<1>5. seg \in Segments /\ seg.frag = feeder[p].pos /\ seg.init = feeder[p].last
  BY <1>3 DEF Segment, Segments
<1>6. DOMAIN segs = 1..shown.latest /\ \A k \in 1..shown.latest : segs[k] \in Segments
  <2>1. DOMAIN segs = 1..shown.latest /\ segs \in Tables
    BY <1>2 DEF DInv, NumbersContiguous
  <2>2. PICK m \in 0..MaxEmitted : segs \in [1..m -> Segments]
    BY <2>1 DEF Tables
  <2> QED BY <2>1, <2>2
<1> DEFINE latest == IF n > shown.latest THEN n ELSE shown.latest
<1>7. latest \in 0..MaxEmitted /\ 1..latest = (1..shown.latest) \cup {n} /\ shown.latest <= latest /\ n <= latest
  BY <1>3, <1>4, DashAssumption
<1>8. Insert(n, seg) \in [1..latest -> Segments]
      /\ Insert(n, seg)[n] = seg /\ \A k \in 1..shown.latest : k # n => Insert(n, seg)[k] = segs[k]
  <2>1. DOMAIN Insert(n, seg) = 1..latest
    BY <1>6, <1>7 DEF Insert
  <2>2. \A k \in 1..latest : Insert(n, seg)[k] = IF k = n THEN seg ELSE segs[k]
    BY <1>6, <1>7 DEF Insert
  <2>3. \A k \in 1..latest : Insert(n, seg)[k] \in Segments
    BY <1>5, <1>6, <1>7, <2>2
  <2>4. Insert(n, seg) = [k \in 1..latest |-> Insert(n, seg)[k]]
    BY <1>6, <1>7 DEF Insert
  <2> QED BY <1>7, <2>2, <2>3, <2>4
<1>9. Insert(n, seg) \in Tables
  BY <1>7, <1>8 DEF Tables
<1>10. /\ shown' \in [init : Inits, segments : Tables, latest : 0..MaxEmitted]
       /\ shown'.init = shown.init /\ shown'.segments = Insert(n, seg) /\ shown'.latest = latest
  <2>1. shown' = [shown EXCEPT !.segments = Insert(n, seg), !.latest = latest]
    BY DEF PushSegment
  <2> HIDE DEF n, seg, latest
  <2> QED BY <1>2, <1>7, <1>9, <2>1
<1>11. feeder' = [feeder EXCEPT ![p].seq = n, ![p].at = "wait"]
  BY DEF PushSegment
<1> HIDE DEF n, seg, latest
<1>12. /\ feeder' \in [Runs -> Feeders]
       /\ feeder'[p].seq = n /\ feeder'[p].at = "wait"
       /\ feeder'[p].pos = feeder[p].pos /\ feeder'[p].last = feeder[p].last
       /\ \A q \in Runs : q # p => feeder'[q] = feeder[q]
  <2>1. n \in 0..MaxEmitted
    BY <1>4, DashAssumption
  <2> QED BY <1>2, <1>11, <2>1 DEF Feeders
<1>13. DashShape'
  BY <1>1, <1>10, <1>12 DEF DInv, DashShape
<1>14. DrainInOrder'
  <2> SUFFICES ASSUME NEW q \in Runs
      PROVE /\ caster[q].emitted > 0 => caster[q].init > 0
            /\ feeder'[q].pos <= caster[q].emitted
            /\ feeder'[q].seq <= feeder'[q].pos
            /\ feeder'[q].at \in {"init", "segment"} => feeder'[q].seq < feeder'[q].pos
            /\ feeder'[q].at = "init" => feeder'[q].hand \in Runs \X (1..MaxInit)
            /\ feeder'[q].at = "segment" => feeder'[q].last # NoInit
    BY <1>1 DEF DrainInOrder
  <2>1. CASE q = p
    BY <1>4, <1>12, <2>1 DEF DInv, DrainInOrder
  <2>2. CASE q # p
    BY <1>12, <2>2 DEF DInv, DrainInOrder
  <2> QED BY <2>1, <2>2
<1>15. NumbersContiguous'
  <2>1. DOMAIN Insert(n, seg) = 1..latest
    BY <1>8
  <2> QED BY <1>10, <2>1 DEF NumbersContiguous
<1>16. NumbersReached'
  <2> SUFFICES ASSUME NEW q \in Runs PROVE feeder'[q].seq <= latest
    BY <1>10 DEF NumbersReached
  <2>1. CASE q = p
    BY <1>7, <1>12, <2>1
  <2>2. CASE q # p
    <3>1. feeder[q].seq \in Nat /\ feeder[q].seq <= shown.latest /\ latest \in Nat
      BY <1>2, <1>7, DashAssumption DEF Feeders, DInv, NumbersReached
    <3> QED BY <1>3, <1>7, <1>12, <2>2, <3>1
  <2> QED BY <2>1, <2>2
<1>17. RunServed'
  <2> SUFFICES ASSUME NEW q \in Runs, feeder'[q].last # NoInit, ~ overtaken', ~ Late(q)'
      PROVE /\ shown'.init = feeder'[q].last
            /\ \A k \in 1..feeder'[q].seq :
                 /\ shown'.segments[k].init = feeder'[q].last
                 /\ shown'.segments[k].frag <= feeder'[q].pos
                 /\ feeder'[q].at \in {"init", "segment"} => shown'.segments[k].frag < feeder'[q].pos
                 /\ k > 1 => shown'.segments[k].frag > shown'.segments[k - 1].frag
    BY DEF RunServed
  <2>1. q = p
    BY <1>1, <1>3, <1>12, WritersAlone
  <2>2. ~ overtaken /\ ~ Late(p)
    BY <1>1 DEF DInv, DashShape
  <2>3. /\ shown.init = feeder[p].last
        /\ \A k \in 1..feeder[p].seq :
             /\ segs[k].init = feeder[p].last
             /\ segs[k].frag < feeder[p].pos
             /\ k > 1 => segs[k].frag > segs[k - 1].frag
    BY <1>1, <1>3, <2>2 DEF DInv, RunServed
  <2> SUFFICES ASSUME NEW k \in 1..n
      PROVE /\ shown'.segments[k].init = feeder[p].last
            /\ shown'.segments[k].frag <= feeder[p].pos
            /\ k > 1 => shown'.segments[k].frag > shown'.segments[k - 1].frag
    BY <1>10, <1>12, <2>1, <2>3
  <2>4. n = feeder[p].seq + 1
    BY DEF n
  <2>5. CASE k = n
    <3>1. shown'.segments[k] = seg /\ seg.frag \in Nat
      BY <1>3, <1>5, <1>8, <1>10, <2>5
    <3>2. ASSUME k > 1 PROVE shown'.segments[k - 1].frag < feeder[p].pos
      <4>1. k - 1 \in 1..feeder[p].seq /\ k - 1 \in 1..shown.latest /\ k - 1 # n
        BY <1>3, <1>4, <2>4, <2>5, <3>2
      <4> QED BY <1>8, <1>10, <2>3, <4>1
    <3>3. k > 1 => shown'.segments[k - 1].frag \in Nat
      <4>1. k > 1 => k - 1 \in 1..latest
        BY <1>4, <1>7, <2>5
      <4>2. k > 1 => shown'.segments[k - 1] \in Segments
        BY <1>8, <1>10, <4>1
      <4> QED BY <4>2, DashAssumption DEF Segments
    <3> QED BY <1>3, <1>5, <3>1, <3>2, <3>3
  <2>6. CASE k # n
    <3>1. k \in 1..feeder[p].seq /\ k \in 1..shown.latest
      BY <1>3, <1>4, <2>4, <2>6
    <3>2. shown'.segments[k] = segs[k] /\ segs[k].frag \in Nat
      <4>1. segs[k] \in Segments
        BY <1>6, <3>1
      <4> QED BY <1>8, <1>10, <2>6, <3>1, <4>1, DashAssumption DEF Segments
    <3>3. k > 1 => shown'.segments[k - 1] = segs[k - 1]
      <4>1. k > 1 => k - 1 \in 1..shown.latest /\ k - 1 # n
        BY <1>3, <2>4, <3>1
      <4> QED BY <1>8, <1>10, <4>1
    <3> QED BY <1>3, <2>3, <3>1, <3>2, <3>3
  <2> QED BY <2>5, <2>6
<1> QED BY <1>13, <1>14, <1>15, <1>16, <1>17 DEF DInv

LEMMA DrainClosesStep == ASSUME DInv, NEW p \in Runs, DrainCloses(p) PROVE DInv'
<1>1. UNCHANGED <<caster, shown, finalized, overtaken>>
  BY DEF DrainCloses
<1>2. feeder \in [Runs -> Feeders] /\ feeder[p] \in Feeders
  BY DEF DInv, DashShape
<1>3. /\ feeder' \in [Runs -> Feeders]
      /\ \A q \in Runs : q # p => feeder'[q] = feeder[q]
      /\ feeder'[p].at = "ended" /\ feeder'[p].pos = feeder[p].pos /\ feeder'[p].seq = feeder[p].seq
      /\ feeder'[p].last = feeder[p].last
  BY <1>2 DEF DrainCloses, Feeders
<1>4. DashShape'
  BY <1>1, <1>3 DEF DInv, DashShape
<1>5. DrainInOrder'
  <2> SUFFICES ASSUME NEW q \in Runs
      PROVE /\ caster[q].emitted > 0 => caster[q].init > 0
            /\ feeder'[q].pos <= caster[q].emitted
            /\ feeder'[q].seq <= feeder'[q].pos
            /\ feeder'[q].at \in {"init", "segment"} => feeder'[q].seq < feeder'[q].pos
            /\ feeder'[q].at = "init" => feeder'[q].hand \in Runs \X (1..MaxInit)
            /\ feeder'[q].at = "segment" => feeder'[q].last # NoInit
    BY <1>1 DEF DrainInOrder
  <2>1. CASE q = p
    BY <1>3, <2>1 DEF DInv, DrainInOrder
  <2>2. CASE q # p
    BY <1>3, <2>2 DEF DInv, DrainInOrder
  <2> QED BY <2>1, <2>2
<1>6. \A q \in Runs : feeder'[q].last = feeder[q].last /\ feeder'[q].seq = feeder[q].seq
                       /\ feeder'[q].pos = feeder[q].pos
  BY <1>3
<1>7. NumbersReached' /\ NumbersContiguous'
  BY <1>1, <1>6 DEF DInv, NumbersReached, NumbersContiguous
<1>8. \A q \in Runs : Late(q)' <=> Late(q)
  BY <1>6 DEF Late
<1>9. RunServed'
  BY <1>1, <1>3, <1>6, <1>8 DEF DInv, RunServed
<1> QED BY <1>4, <1>5, <1>7, <1>9 DEF DInv

LEMMA DashStep == ASSUME DInv, [DashNext]_dash PROVE DInv'
<1>1. CASE UNCHANGED dash
  BY <1>1 DEF dash, DInv, DashShape, DrainInOrder, NumbersReached, NumbersContiguous, RunServed, Late
<1>2. CASE Finalize
  BY <1>2 DEF Finalize, DInv, DashShape, DrainInOrder, NumbersReached, NumbersContiguous, RunServed, Late
<1> QED BY <1>1, <1>2, CasterSteps, DashPublishStep, TakeFragmentStep, PushInitStep, PushSegmentStep,
          DrainClosesStep DEF DashNext

-----------------------------------------------------------------------------
(* The WHEP sessions.                                                      *)

Knowns == [audio : Gens, params : Gens, key : Keyframes]
Contexts == [known : Knowns, encoder : Gens, connected : BOOLEAN, video : BOOLEAN, replayed : BOOLEAN]
Messages == [kind : {"audio", "params"}, what : Gens] \cup [kind : {"key"}, what : Keyframes]
Places == Kinds \cup {"none", "list", "answered", "deleted"}

\* Everything has its type, the channels included.
WhepShape ==
  /\ factory \in BOOLEAN /\ source \in [gen : Gens, inband : BOOLEAN, announced : BOOLEAN]
  /\ fan \in [kind : Kinds \cup {"none"}, todo : SUBSET Viewers]
  /\ cache \in Knowns /\ sent \in [key : 0..MaxKeys, config : 0..MaxConfigs]
  /\ offer \in [Viewers -> Places] /\ loop \in [Viewers -> {"off", "run", "ended"}]
  /\ queue \in [Viewers -> Seq(Messages)] /\ ctx \in [Viewers -> Contexts]
  /\ raced \in [Viewers -> SUBSET Kinds]
  /\ wire \in [Viewers -> [key : Keyframes, params : Gens, excused : BOOLEAN]]

\* Listed are the answered sessions, and a walk has sessions left to visit that
\* were listed when it began or have been since.
Listing ==
  /\ sessions = {v \in Viewers : offer[v] = "answered"}
  /\ fan = Quiet <=> fan.todo = {}
  /\ \A v \in fan.todo : offer[v] \in {"answered", "deleted"} /\ fan.kind \in Kinds

\* Messages of a kind come in the order of their rank; the cache holds the last.
Rank(k, x) == IF k = "key" THEN x.n ELSE x
Below(k, x) == Rank(k, x) <= Rank(k, cache[k]) /\ (Rank(k, x) = Rank(k, cache[k]) => x = cache[k])
InOrder(v) ==
  \A k \in Kinds :
    /\ Below(k, ctx[v].known[k])
    /\ \A i \in DOMAIN queue[v] : queue[v][i].kind = k =>
         /\ Below(k, queue[v][i].what)
         /\ Rank(k, ctx[v].known[k]) <= Rank(k, queue[v][i].what)
         /\ \A j \in DOMAIN queue[v] : i < j /\ queue[v][j].kind = k =>
              Rank(k, queue[v][i].what) <= Rank(k, queue[v][j].what)

\* The parameter sets of an out-of-band keyframe are in the cache before it.
Covered(x) == x.inband \/ cache.params >= x.gen
Source ==
  /\ source.announced => cache.params >= source.gen
  /\ cache.audio <= source.gen /\ cache.params <= source.gen
  /\ cache.key.n <= sent.key /\ Covered(cache.key)
AllCovered(v) ==
  /\ Covered(ctx[v].known.key)
  /\ \A i \in DOMAIN queue[v] : queue[v][i].kind = "key" => Covered(queue[v][i].what)

\* A session that has been seeded with a kind has the cache's value of it, or
\* has it in its channel, or is about to get it.
Seeded(v, k) ==
  offer[v] \in CASE k = "audio" -> {"params", "key", "list", "answered"}
                 [] k = "params" -> {"key", "list", "answered"}
                 [] k = "key" -> {"list", "answered"}
Current(v, k) ==
  \/ ctx[v].known[k] = cache[k]
  \/ \E i \in DOMAIN queue[v] : queue[v][i].kind = k /\ queue[v][i].what = cache[k]
UpToDate(v) ==
  \A k \in Kinds : loop[v] = "run" /\ Seeded(v, k) /\ k \notin raced[v] =>
    (v \in fan.todo /\ fan.kind = k) \/ Current(v, k)

\* The parameter sets of a keyframe in the channel are ahead of it.
Ahead(v) ==
  \/ "params" \in raced[v]
  \/ /\ ctx[v].known.key.inband \/ ctx[v].known.params >= ctx[v].known.key.gen
     /\ \A i \in DOMAIN queue[v] : queue[v][i].kind = "key" =>
          \/ queue[v][i].what.inband
          \/ ctx[v].known.params >= queue[v][i].what.gen
          \/ \E j \in DOMAIN queue[v] :
               j < i /\ queue[v][j].kind = "params" /\ queue[v][j].what >= queue[v][i].what.gen

\* What is kept of one viewer, and the inductive invariant of the sessions.
ViewerInv(v) == InOrder(v) /\ AllCovered(v) /\ UpToDate(v) /\ Ahead(v)
WInv == WhepShape /\ Listing /\ Source /\ KeyframeDecodable /\ \A v \in Viewers : ViewerInv(v)

LEMMA WInvImplies == WInv => WhepInv
<1> SUFFICES ASSUME WInv PROVE WhepInv
  OBVIOUS
<1>1. \A v \in Viewers : queue[v] \in Seq(Messages)
  BY DEF WInv, WhepShape
<1>2. \A v \in Viewers : \A i \in DOMAIN queue[v] : queue[v][i].kind \in Kinds
  BY <1>1 DEF Messages, Kinds
<1>3. WhepTypeOK
  <2>1. sessions \subseteq Viewers
    BY DEF WInv, Listing
  <2>2. fan.kind \in Kinds \cup {"none"} /\ fan.todo \subseteq Viewers
    BY DEF WInv, WhepShape
  <2> QED BY <1>2, <2>1, <2>2 DEF WInv, WhepShape, WhepTypeOK, Knowns, Contexts, Places
<1>4. SessionInStep
  <2> SUFFICES ASSUME fan = Quiet, NEW v \in sessions, NEW k \in Kinds,
                      loop[v] = "run", queue[v] = <<>>, k \notin raced[v]
               PROVE  ctx[v].known[k] = cache[k]
    BY DEF SessionInStep
  <2>1. v \in Viewers /\ offer[v] = "answered" /\ fan.todo = {}
    BY DEF WInv, Listing
  <2>2. Seeded(v, k)
    BY <2>1 DEF Seeded, Kinds
  <2>3. Current(v, k)
    BY <2>1, <2>2 DEF WInv, ViewerInv, UpToDate
  <2> QED BY <2>3 DEF Current
<1>5. KeyframeDecodable
  BY DEF WInv
<1> QED BY <1>3, <1>4, <1>5 DEF WhepInv

LEMMA NothingFits == NothingKnown \in Knowns /\ NoKey \in Keyframes
BY WhepAssumption DEF NothingKnown, Knowns, Gens, NoKey, Keyframe, Keyframes

LEMMA InitWInv == WhepInit => WInv
<1> SUFFICES ASSUME WhepInit PROVE WInv
  OBVIOUS
<1>1. NewCtx \in Contexts /\ NewCtx.known = NothingKnown
  BY NothingFits, WhepAssumption DEF NewCtx, Contexts, Gens
<1>2. WhepShape
  <2>1. 0 \in Gens /\ 0 \in 0..MaxKeys /\ 0 \in 0..MaxConfigs
    BY WhepAssumption DEF Gens
  <2>2. "none" \in Places /\ <<>> \in Seq(Messages)
    BY DEF Places
  <2> QED BY <1>1, <2>1, <2>2, NothingFits DEF WhepInit, WhepShape, Quiet
<1>3. fan = Quiet /\ fan.todo = {} /\ sessions = {} /\ \A v \in Viewers : offer[v] = "none"
  BY DEF WhepInit, Quiet
<1>4. Listing
  BY <1>3 DEF Listing
<1>5. /\ cache.audio = 0 /\ cache.params = 0 /\ cache.key = NoKey
      /\ NoKey.n = 0 /\ NoKey.gen = 0 /\ NoKey.inband = FALSE
  BY DEF WhepInit, NothingKnown, NoKey, Keyframe
<1>6. Source
  BY <1>5 DEF WhepInit, Source, Covered
<1>7. KeyframeDecodable
  <2>1. \A v \in Viewers : wire[v].key = NoKey /\ wire[v].params = 0
    BY DEF WhepInit
  <2>2. \A v \in Viewers : wire[v].key.gen = 0 /\ wire[v].params = 0
    BY <1>5, <2>1
  <2>3. ASSUME NEW v \in Viewers PROVE wire[v].params >= wire[v].key.gen
    <3>1. wire[v].key.gen = 0 /\ wire[v].params = 0
      BY <2>2
    <3>2. 0 >= 0
      OBVIOUS
    <3> QED BY <3>1, <3>2
  <2> QED BY <2>3 DEF KeyframeDecodable
<1>8. ASSUME NEW v \in Viewers PROVE ViewerInv(v)
  <2>1. ctx[v].known = cache /\ queue[v] = <<>> /\ raced[v] = {} /\ offer[v] = "none"
    BY <1>1 DEF WhepInit
  <2>2. \A k \in Kinds : Rank(k, cache[k]) = 0
    BY <1>5 DEF Rank, Kinds
  <2>3. InOrder(v)
    BY <2>1, <2>2 DEF InOrder, Below
  <2>4. AllCovered(v) /\ Ahead(v)
    BY <1>5, <2>1 DEF AllCovered, Covered, Ahead
  <2>5. UpToDate(v)
    BY <2>1 DEF UpToDate, Current
  <2> QED BY <2>3, <2>4, <2>5 DEF ViewerInv
<1> QED BY <1>2, <1>4, <1>6, <1>7, <1>8 DEF WInv

\* What one viewer's state is made of.
LEMMA WhepTypes ==
  ASSUME WhepShape, NEW v \in Viewers
  PROVE  /\ queue[v] \in Seq(Messages) /\ ctx[v] \in Contexts /\ ctx[v].known \in Knowns
         /\ raced[v] \in SUBSET Kinds /\ offer[v] \in Places /\ cache \in Knowns
         /\ \A i \in DOMAIN queue[v] :
              /\ queue[v][i] \in Messages /\ queue[v][i].kind \in Kinds
              /\ Rank(queue[v][i].kind, queue[v][i].what) \in Nat
         /\ \A k \in Kinds : Rank(k, ctx[v].known[k]) \in Nat /\ Rank(k, cache[k]) \in Nat
<1>1. queue[v] \in Seq(Messages) /\ ctx[v] \in Contexts /\ raced[v] \in SUBSET Kinds /\ offer[v] \in Places
      /\ cache \in Knowns
  BY DEF WhepShape
<1>2. ctx[v].known \in Knowns
  BY <1>1 DEF Contexts
<1>3. ASSUME NEW m \in Messages PROVE m.kind \in Kinds /\ Rank(m.kind, m.what) \in Nat
  BY WhepAssumption DEF Messages, Kinds, Rank, Gens, Keyframes
<1>4. \A i \in DOMAIN queue[v] : queue[v][i] \in Messages
  BY <1>1
<1>5. ASSUME NEW r \in Knowns, NEW k \in Kinds PROVE Rank(k, r[k]) \in Nat
  BY WhepAssumption DEF Knowns, Kinds, Rank, Gens, Keyframes
<1> QED BY <1>1, <1>2, <1>3, <1>4, <1>5

\* A step that moves neither the viewer's channel nor what it knows, and gives
\* it nothing new to be up to date with.
LEMMA ViewerKept ==
  ASSUME NEW v \in Viewers, ViewerInv(v), UNCHANGED cache,
         queue'[v] = queue[v], ctx'[v].known = ctx[v].known, raced'[v] = raced[v],
         \A k \in Kinds : loop'[v] = "run" /\ Seeded(v, k)' => (loop[v] = "run" /\ Seeded(v, k)) \/ Current(v, k),
         \A k \in Kinds : v \in fan.todo /\ fan.kind = k => v \in fan'.todo /\ fan'.kind = k
  PROVE  ViewerInv(v)'
<1>1. InOrder(v)'
  BY DEF ViewerInv, InOrder, Below
<1>2. AllCovered(v)'
  BY DEF ViewerInv, AllCovered, Covered
<1>3. Ahead(v)'
  BY DEF ViewerInv, Ahead
<1>4. \A k \in Kinds : Current(v, k) => Current(v, k)'
  BY DEF Current
<1>5. UpToDate(v)'
  BY <1>4 DEF ViewerInv, UpToDate
<1> QED BY <1>1, <1>2, <1>3, <1>5 DEF ViewerInv

\* A message of the cache's value goes to the end of the channel.  For a
\* keyframe the parameter sets must be ahead of it.
LEMMA Delivering ==
  ASSUME WhepShape, NEW v \in Viewers, ViewerInv(v), NEW k \in Kinds, UNCHANGED cache,
         queue'[v] = Append(queue[v], [kind |-> k, what |-> cache[k]]),
         ctx'[v].known = ctx[v].known, raced'[v] = raced[v],
         k = "key" => Covered(cache.key) /\ ("params" \in raced[v] \/ Current(v, "params")),
         \A c \in Kinds : c # k /\ loop'[v] = "run" /\ Seeded(v, c)' => loop[v] = "run" /\ Seeded(v, c),
         \A c \in Kinds : c # k /\ v \in fan.todo /\ fan.kind = c => v \in fan'.todo /\ fan'.kind = c
  PROVE  ViewerInv(v)'
<1> DEFINE q == queue[v]
           r == queue'[v]
           n == Len(q) + 1
           m == [kind |-> k, what |-> cache[k]]
<1>1. q \in Seq(Messages) /\ cache \in Knowns /\ ctx[v].known \in Knowns
  BY WhepTypes
<1>2. /\ DOMAIN q = 1..Len(q) /\ Len(q) \in Nat /\ DOMAIN r = 1..n /\ r[n] = m
      /\ \A i \in 1..Len(q) : r[i] = q[i]
  BY <1>1
<1>3. m.kind = k /\ m.what = cache[k]
  OBVIOUS
<1>4. \A i \in DOMAIN r : (i \in DOMAIN q /\ r[i] = q[i]) \/ (i = n /\ r[i] = m)
  BY <1>2
<1>5. \A i \in DOMAIN q : i \in DOMAIN r /\ r[i] = q[i] /\ i < n
  BY <1>2
<1>6. n \in DOMAIN r /\ r[n] = m /\ n \in Nat
  BY <1>2
<1> HIDE DEF q, r, n, m
<1>7. /\ \A c \in Kinds : Rank(c, ctx[v].known[c]) \in Nat /\ Rank(c, cache[c]) \in Nat
      /\ \A i \in DOMAIN q : Rank(q[i].kind, q[i].what) \in Nat
  BY WhepTypes DEF q
<1>8. InOrder(v)'
  <2> SUFFICES ASSUME NEW c \in Kinds
      PROVE  /\ Below(c, ctx[v].known[c])
             /\ \A i \in DOMAIN r : r[i].kind = c =>
                  /\ Below(c, r[i].what)
                  /\ Rank(c, ctx[v].known[c]) <= Rank(c, r[i].what)
                  /\ \A j \in DOMAIN r : i < j /\ r[j].kind = c => Rank(c, r[i].what) <= Rank(c, r[j].what)
    BY DEF InOrder, Below, r
  <2>1. /\ Below(c, ctx[v].known[c])
        /\ \A i \in DOMAIN q : q[i].kind = c =>
             /\ Below(c, q[i].what)
             /\ Rank(c, ctx[v].known[c]) <= Rank(c, q[i].what)
             /\ \A j \in DOMAIN q : i < j /\ q[j].kind = c => Rank(c, q[i].what) <= Rank(c, q[j].what)
    BY DEF ViewerInv, InOrder, q
  <2>2. Below(k, cache[k])
    BY <1>7 DEF Below
  <2>3. ASSUME NEW i \in DOMAIN r, r[i].kind = c
        PROVE  Below(c, r[i].what) /\ Rank(c, ctx[v].known[c]) <= Rank(c, r[i].what)
    <3>1. CASE i = n /\ r[i] = m
      BY <1>3, <2>1, <2>2, <2>3, <3>1 DEF Below
    <3>2. CASE i \in DOMAIN q /\ r[i] = q[i]
      BY <2>1, <2>3, <3>2
    <3> QED BY <1>4, <3>1, <3>2
  <2>4. ASSUME NEW i \in DOMAIN r, r[i].kind = c, NEW j \in DOMAIN r, i < j, r[j].kind = c
        PROVE  Rank(c, r[i].what) <= Rank(c, r[j].what)
    <3>1. i \in DOMAIN q /\ r[i] = q[i]
      BY <1>2, <1>4, <2>4 DEF n
    <3>2. CASE j = n /\ r[j] = m
      BY <1>3, <2>1, <2>4, <3>1, <3>2 DEF Below
    <3>3. CASE j \in DOMAIN q /\ r[j] = q[j]
      BY <2>1, <2>4, <3>1, <3>3
    <3> QED BY <1>4, <3>2, <3>3
  <2> QED BY <2>1, <2>3, <2>4
<1>9. AllCovered(v)'
  <2>1. Covered(ctx[v].known.key) /\ \A i \in DOMAIN q : q[i].kind = "key" => Covered(q[i].what)
    BY DEF ViewerInv, AllCovered, q
  <2>2. ASSUME NEW i \in DOMAIN r, r[i].kind = "key" PROVE Covered(r[i].what)
    <3>1. CASE i = n /\ r[i] = m
      BY <1>3, <2>2, <3>1
    <3>2. CASE i \in DOMAIN q /\ r[i] = q[i]
      BY <2>1, <2>2, <3>2
    <3> QED BY <1>4, <3>1, <3>2
  <2> QED BY <2>1, <2>2 DEF AllCovered, Covered, r
<1>10. UpToDate(v)'
  <2> SUFFICES ASSUME NEW c \in Kinds, loop'[v] = "run", Seeded(v, c)', c \notin raced[v]
               PROVE  (v \in fan'.todo /\ fan'.kind = c) \/ Current(v, c)'
    BY DEF UpToDate
  <2>1. CASE c = k
    BY <1>3, <1>6, <2>1 DEF Current, r
  <2>2. CASE c # k
    <3>1. (v \in fan.todo /\ fan.kind = c) \/ Current(v, c)
      BY <2>2 DEF ViewerInv, UpToDate
    <3>2. Current(v, c) => Current(v, c)'
      BY <1>5 DEF Current, q, r
    <3> QED BY <2>2, <3>1, <3>2
  <2> QED BY <2>1, <2>2
<1>11. Ahead(v)'
  <2> SUFFICES ASSUME "params" \notin raced[v]
      PROVE /\ ctx[v].known.key.inband \/ ctx[v].known.params >= ctx[v].known.key.gen
            /\ \A i \in DOMAIN r : r[i].kind = "key" =>
                 \/ r[i].what.inband
                 \/ ctx[v].known.params >= r[i].what.gen
                 \/ \E j \in DOMAIN r : j < i /\ r[j].kind = "params" /\ r[j].what >= r[i].what.gen
    BY DEF Ahead, r
  <2>1. /\ ctx[v].known.key.inband \/ ctx[v].known.params >= ctx[v].known.key.gen
        /\ \A i \in DOMAIN q : q[i].kind = "key" =>
             \/ q[i].what.inband
             \/ ctx[v].known.params >= q[i].what.gen
             \/ \E j \in DOMAIN q : j < i /\ q[j].kind = "params" /\ q[j].what >= q[i].what.gen
    BY DEF ViewerInv, Ahead, q
  <2>2. ASSUME NEW i \in DOMAIN r, r[i].kind = "key"
        PROVE  \/ r[i].what.inband
               \/ ctx[v].known.params >= r[i].what.gen
               \/ \E j \in DOMAIN r : j < i /\ r[j].kind = "params" /\ r[j].what >= r[i].what.gen
    <3>1. CASE i = n /\ r[i] = m
      <4>1. r[i].what = cache.key /\ Covered(cache.key) /\ Current(v, "params")
        BY <1>3, <2>2, <3>1
      <4>2. CASE ctx[v].known.params = cache.params
        BY <4>1, <4>2 DEF Covered
      <4>3. CASE \E j \in DOMAIN q : q[j].kind = "params" /\ q[j].what = cache.params
        BY <1>5, <3>1, <4>1, <4>3 DEF Covered
      <4> QED BY <4>1, <4>2, <4>3 DEF Current, q
    <3>2. CASE i \in DOMAIN q /\ r[i] = q[i]
      BY <1>5, <2>1, <2>2, <3>2
    <3> QED BY <1>4, <3>1, <3>2
  <2> QED BY <2>1, <2>2
<1> QED BY <1>8, <1>9, <1>10, <1>11 DEF ViewerInv

\* The loop takes the head of its channel.
LEMMA MessageStep == ASSUME WInv, NEW v \in Viewers, Message(v) PROVE ViewerInv(v)' /\ KeyframeDecodable'
<1> DEFINE q == queue[v]
           r == queue'[v]
           m == Head(q)
           known == ctx[v].known
<1>1. WhepShape /\ ViewerInv(v) /\ KeyframeDecodable /\ UNCHANGED <<cache, fan, loop, offer>>
  BY DEF WInv, Message
<1>2. q \in Seq(Messages) /\ q # <<>> /\ cache \in Knowns /\ known \in Knowns /\ raced[v] \in SUBSET Kinds
  BY <1>1, WhepTypes DEF Message
<1>3. r = Tail(q)
  BY <1>1 DEF Message, WhepShape
<1>4. /\ DOMAIN q = 1..Len(q) /\ Len(q) \in Nat /\ Len(q) >= 1 /\ m = q[1]
      /\ DOMAIN r = 1..Len(q) - 1 /\ \A i \in 1..Len(q) - 1 : r[i] = q[i + 1]
  BY <1>2, <1>3
<1>5. \A i \in DOMAIN r : i \in Nat /\ i + 1 \in DOMAIN q /\ r[i] = q[i + 1] /\ 1 < i + 1
  BY <1>4
<1>6. 1 \in DOMAIN q /\ m = q[1] /\ \A i \in DOMAIN q : i # 1 => i - 1 \in DOMAIN r /\ r[i - 1] = q[i]
  BY <1>4
<1>7. m \in Messages /\ m.kind \in Kinds
  BY <1>1, <1>6, WhepTypes
<1>8. /\ ctx'[v].known = [known EXCEPT ![m.kind] = m.what]
      /\ raced'[v] = IF m.what = cache[m.kind] THEN raced[v] \ {m.kind} ELSE raced[v]
  <2>1. ctx[v] \in Contexts
    BY <1>1, WhepTypes
  <2> QED BY <1>1, <2>1 DEF Message, WhepShape, Contexts
<1>9. /\ ctx'[v].known[m.kind] = m.what
      /\ \A c \in Kinds : c # m.kind => ctx'[v].known[c] = known[c]
  BY <1>2, <1>7, <1>8 DEF Knowns, Kinds
<1>10. /\ raced'[v] \subseteq raced[v]
       /\ \A c \in raced[v] : c \notin raced'[v] => c = m.kind /\ m.what = cache[c]
  BY <1>8
<1>11. /\ \A c \in Kinds : Rank(c, known[c]) \in Nat /\ Rank(c, cache[c]) \in Nat
       /\ \A i \in DOMAIN q : Rank(q[i].kind, q[i].what) \in Nat
  BY <1>1, WhepTypes
<1>12. /\ \A c \in Kinds : ctx'[v].known[c] = IF c = m.kind THEN m.what ELSE known[c]
       /\ ctx'[v].known.key = (IF m.kind = "key" THEN m.what ELSE known.key)
       /\ ctx'[v].known.params = (IF m.kind = "params" THEN m.what ELSE known.params)
  BY <1>9 DEF Kinds
<1> HIDE DEF q, r, m, known
<1>13. \A c \in Kinds :
         /\ Below(c, known[c])
         /\ \A i \in DOMAIN q : q[i].kind = c =>
              /\ Below(c, q[i].what)
              /\ Rank(c, known[c]) <= Rank(c, q[i].what)
              /\ \A j \in DOMAIN q : i < j /\ q[j].kind = c => Rank(c, q[i].what) <= Rank(c, q[j].what)
  BY <1>1 DEF ViewerInv, InOrder, q, known
<1>14. InOrder(v)'
  <2> SUFFICES ASSUME NEW c \in Kinds
      PROVE  /\ Below(c, ctx'[v].known[c])
             /\ \A i \in DOMAIN r : r[i].kind = c =>
                  /\ Below(c, r[i].what)
                  /\ Rank(c, ctx'[v].known[c]) <= Rank(c, r[i].what)
                  /\ \A j \in DOMAIN r : i < j /\ r[j].kind = c => Rank(c, r[i].what) <= Rank(c, r[j].what)
    BY <1>1 DEF InOrder, Below, r
  <2>1. Below(c, ctx'[v].known[c])
    BY <1>6, <1>12, <1>13
  <2>2. ASSUME NEW i \in DOMAIN r, r[i].kind = c
        PROVE  Below(c, r[i].what) /\ Rank(c, ctx'[v].known[c]) <= Rank(c, r[i].what)
    <3>1. i + 1 \in DOMAIN q /\ r[i] = q[i + 1] /\ 1 < i + 1
      BY <1>5
    <3> QED BY <1>6, <1>12, <1>13, <2>2, <3>1
  <2>3. ASSUME NEW i \in DOMAIN r, r[i].kind = c, NEW j \in DOMAIN r, i < j, r[j].kind = c
        PROVE  Rank(c, r[i].what) <= Rank(c, r[j].what)
    <3>1. i + 1 \in DOMAIN q /\ r[i] = q[i + 1] /\ j + 1 \in DOMAIN q /\ r[j] = q[j + 1] /\ i + 1 < j + 1
      BY <1>5, <2>3
    <3> QED BY <1>13, <2>3, <3>1
  <2> QED BY <2>1, <2>2, <2>3
<1>15. Covered(known.key) /\ \A i \in DOMAIN q : q[i].kind = "key" => Covered(q[i].what)
  BY <1>1 DEF ViewerInv, AllCovered, q, known
<1>16. Covered(ctx'[v].known.key) /\ \A i \in DOMAIN r : r[i].kind = "key" => Covered(r[i].what)
  BY <1>5, <1>6, <1>12, <1>15
<1>17. AllCovered(v)'
  BY <1>1, <1>16 DEF AllCovered, Covered, r
<1>18. ASSUME NEW c \in Kinds, Current(v, c) \/ (c = m.kind /\ m.what = cache[c]) PROVE Current(v, c)'
  <2>1. CASE c = m.kind
    <3>1. CASE m.what = cache[c]
      BY <1>1, <1>12, <2>1, <3>1 DEF Current
    <3>2. CASE known[c] = cache[c]
      <4>1. Below(c, m.what) /\ Rank(c, known[c]) <= Rank(c, m.what)
        BY <1>6, <1>13, <2>1
      <4>2. Rank(c, m.what) \in Nat /\ Rank(c, cache[c]) \in Nat
        BY <1>6, <1>11, <2>1
      <4>3. m.what = cache[c]
        BY <3>2, <4>1, <4>2 DEF Below
      <4> QED BY <3>1, <4>3
    <3>3. CASE \E i \in DOMAIN q : q[i].kind = c /\ q[i].what = cache[c]
      <4>1. PICK i \in DOMAIN q : q[i].kind = c /\ q[i].what = cache[c]
        BY <3>3
      <4>2. CASE i = 1
        BY <1>6, <3>1, <4>1, <4>2
      <4>3. CASE i # 1
        BY <1>1, <1>6, <4>1, <4>3 DEF Current, r
      <4> QED BY <4>2, <4>3
    <3> QED BY <1>18, <3>1, <3>2, <3>3 DEF Current, q, known
  <2>2. CASE c # m.kind
    <3>1. CASE known[c] = cache[c]
      BY <1>1, <1>12, <2>2, <3>1 DEF Current
    <3>2. CASE \E i \in DOMAIN q : q[i].kind = c /\ q[i].what = cache[c]
      <4>1. PICK i \in DOMAIN q : q[i].kind = c /\ q[i].what = cache[c]
        BY <3>2
      <4>2. i # 1
        BY <1>6, <2>2, <4>1
      <4> QED BY <1>1, <1>6, <4>1, <4>2 DEF Current, r
    <3> QED BY <1>18, <2>2, <3>1, <3>2 DEF Current, q, known
  <2> QED BY <2>1, <2>2
<1>19. UpToDate(v)'
  <2> SUFFICES ASSUME NEW c \in Kinds, loop[v] = "run", Seeded(v, c), c \notin raced'[v]
               PROVE  (v \in fan.todo /\ fan.kind = c) \/ Current(v, c)'
    BY <1>1 DEF UpToDate, Seeded
  <2>1. CASE c \in raced[v]
    BY <1>10, <1>18, <2>1
  <2>2. CASE c \notin raced[v]
    BY <1>1, <1>18, <2>2 DEF ViewerInv, UpToDate
  <2> QED BY <2>1, <2>2
<1>20. \/ "params" \in raced[v]
       \/ /\ known.key.inband \/ known.params >= known.key.gen
          /\ \A i \in DOMAIN q : q[i].kind = "key" =>
               \/ q[i].what.inband
               \/ known.params >= q[i].what.gen
               \/ \E j \in DOMAIN q : j < i /\ q[j].kind = "params" /\ q[j].what >= q[i].what.gen
  BY <1>1 DEF ViewerInv, Ahead, q, known
<1>21. Ahead(v)'
  <2> SUFFICES ASSUME "params" \notin raced'[v]
      PROVE /\ ctx'[v].known.key.inband \/ ctx'[v].known.params >= ctx'[v].known.key.gen
            /\ \A i \in DOMAIN r : r[i].kind = "key" =>
                 \/ r[i].what.inband
                 \/ ctx'[v].known.params >= r[i].what.gen
                 \/ \E j \in DOMAIN r : j < i /\ r[j].kind = "params" /\ r[j].what >= r[i].what.gen
    BY DEF Ahead, r
  <2>1. CASE "params" \in raced[v]
    <3>1. ctx'[v].known.params = cache.params
      BY <1>10, <1>12, <2>1
    <3> QED BY <1>16, <3>1 DEF Covered
  <2>2. CASE "params" \notin raced[v]
    <3>1. /\ known.key.inband \/ known.params >= known.key.gen
          /\ \A i \in DOMAIN q : q[i].kind = "key" =>
               \/ q[i].what.inband
               \/ known.params >= q[i].what.gen
               \/ \E j \in DOMAIN q : j < i /\ q[j].kind = "params" /\ q[j].what >= q[i].what.gen
      BY <1>20, <2>2
    <3>2. known.params \in Nat /\ ctx'[v].known.params \in Nat /\ known.params <= ctx'[v].known.params
      <4>1. known.params \in Nat
        BY <1>11 DEF Rank, Kinds
      <4>2. CASE m.kind = "params"
        <5>1. Rank("params", known.params) <= Rank("params", m.what) /\ Rank("params", m.what) \in Nat
          BY <1>6, <1>11, <1>13, <4>2 DEF Kinds
        <5> QED BY <1>12, <4>1, <4>2, <5>1 DEF Rank
      <4>3. CASE m.kind # "params"
        BY <1>12, <4>1, <4>3
      <4> QED BY <4>2, <4>3
    <3>3. /\ known.key.gen \in Nat
          /\ \A i \in DOMAIN q : q[i].kind = "key" => q[i].what.gen \in Nat
          /\ \A i \in DOMAIN q : q[i].kind = "params" => q[i].what \in Nat
      <4>1. \A i \in DOMAIN q : q[i] \in Messages
        BY <1>2
      <4> QED BY <1>2, <4>1, WhepAssumption DEF Messages, Knowns, Keyframes, Gens
    <3>4. ctx'[v].known.key.inband \/ ctx'[v].known.params >= ctx'[v].known.key.gen
      <4>1. CASE m.kind = "key"
        <5>1. m.what.inband \/ known.params >= m.what.gen
          <6>1. \A j \in DOMAIN q : ~ (j < 1)
            BY <1>4 DEF q
          <6> QED BY <1>6, <3>1, <4>1, <6>1
        <5> QED BY <1>12, <4>1, <5>1
      <4>2. CASE m.kind # "key"
        BY <1>12, <3>1, <3>2, <3>3, <4>2
      <4> QED BY <4>1, <4>2
    <3>5. ASSUME NEW i \in DOMAIN r, r[i].kind = "key"
          PROVE  \/ r[i].what.inband
                 \/ ctx'[v].known.params >= r[i].what.gen
                 \/ \E j \in DOMAIN r : j < i /\ r[j].kind = "params" /\ r[j].what >= r[i].what.gen
      <4>1. i \in Nat /\ i + 1 \in DOMAIN q /\ r[i] = q[i + 1]
        BY <1>5
      <4>2. r[i].what.gen \in Nat
        BY <3>3, <3>5, <4>1
      <4>3. CASE known.params >= r[i].what.gen
        BY <3>2, <4>2, <4>3
      <4>4. ASSUME NEW j \in DOMAIN q, j < i + 1, q[j].kind = "params", q[j].what >= r[i].what.gen
            PROVE  \/ ctx'[v].known.params >= r[i].what.gen
                   \/ \E k \in DOMAIN r : k < i /\ r[k].kind = "params" /\ r[k].what >= r[i].what.gen
        <5>1. CASE j = 1
          BY <1>6, <1>12, <4>4, <5>1
        <5>2. CASE j # 1
          <6>1. j - 1 \in DOMAIN r /\ r[j - 1] = q[j]
            BY <1>6, <5>2
          <6>2. j - 1 < i
            BY <4>1, <4>4, <1>4 DEF q
          <6> QED BY <4>4, <6>1, <6>2
        <5> QED BY <5>1, <5>2
      <4> QED BY <3>1, <3>5, <4>1, <4>3, <4>4
    <3> QED BY <3>4, <3>5
  <2> QED BY <2>1, <2>2
<1>22. KeyframeDecodable'
  <2> SUFFICES ASSUME NEW u \in Viewers PROVE wire'[u].params >= wire'[u].key.gen \/ wire'[u].excused
    BY DEF KeyframeDecodable
  <2>1. CASE wire' = wire
    BY <1>1, <2>1 DEF KeyframeDecodable
  <2>2. CASE m.kind = "key" /\ wire' = [wire EXCEPT ![v] = Written(v, m.what)]
    <3>1. CASE u # v
      BY <1>1, <2>2, <3>1 DEF KeyframeDecodable, WhepShape
    <3>2. CASE u = v
      <4>1. /\ wire'[u].key = m.what /\ wire'[u].params = IF m.what.inband THEN m.what.gen ELSE known.params
            /\ wire'[u].excused = ("params" \in raced[v])
        BY <1>1, <2>2, <3>2 DEF WhepShape, Written, known
      <4>2. m.what.gen \in Nat
        BY <1>7, <2>2, WhepAssumption DEF Messages, Keyframes, Gens
      <4>3. "params" \in raced[v] \/ m.what.inband \/ known.params >= m.what.gen
        <5>1. \A j \in DOMAIN q : ~ (j < 1)
          BY <1>4 DEF q
        <5> QED BY <1>6, <1>20, <2>2, <5>1
      <4>4. CASE "params" \in raced[v]
        BY <4>1, <4>4
      <4>5. CASE m.what.inband
        BY <4>1, <4>2, <4>5
      <4>6. CASE ~ m.what.inband /\ known.params >= m.what.gen
        BY <4>1, <4>6
      <4> QED BY <4>3, <4>4, <4>5, <4>6
    <3> QED BY <3>1, <3>2
  <2> QED BY <2>1, <2>2 DEF Message, m, q
<1> QED BY <1>14, <1>17, <1>19, <1>21, <1>22 DEF ViewerInv

\* The other viewers, and everything that is shared, when the loop takes a
\* message.
LEMMA MessageWhole == ASSUME WInv, NEW v \in Viewers, Message(v), UNCHANGED factory PROVE WInv'
<1>1. WhepShape /\ UNCHANGED <<source, fan, cache, sent, sessions, offer, loop>>
  BY DEF WInv, Message
<1>2. ViewerInv(v)' /\ KeyframeDecodable'
  BY MessageStep
<1> DEFINE q == queue[v]
           m == Head(q)
<1>3. q \in Seq(Messages) /\ q # <<>> /\ ctx[v] \in Contexts /\ ctx[v].known \in Knowns
  BY <1>1, WhepTypes DEF Message
<1>4. m \in Messages /\ Tail(q) \in Seq(Messages)
  BY <1>3
<1>5. [ctx[v].known EXCEPT ![m.kind] = m.what] \in Knowns
  BY <1>3, <1>4 DEF Messages, Knowns
<1>6. queue' = [queue EXCEPT ![v] = Tail(q)]
      /\ ctx' = [ctx EXCEPT ![v] = [ctx[v] EXCEPT !.known = [ctx[v].known EXCEPT ![m.kind] = m.what]]]
  BY <1>1, <1>3 DEF Message, WhepShape, Contexts
<1>7. [ctx[v] EXCEPT !.known = [ctx[v].known EXCEPT ![m.kind] = m.what]] \in Contexts
  BY <1>3, <1>5 DEF Contexts
<1>8. raced' \in [Viewers -> SUBSET Kinds] /\ \A u \in Viewers : u # v => raced'[u] = raced[u]
  BY <1>1 DEF Message, WhepShape
<1>9. wire' \in [Viewers -> [key : Keyframes, params : Gens, excused : BOOLEAN]]
  <2>1. CASE wire' = wire
    BY <1>1, <2>1 DEF WhepShape
  <2>2. CASE m.kind = "key" /\ wire' = [wire EXCEPT ![v] = Written(v, m.what)]
    <3>1. m.what \in Keyframes
      BY <1>4, <2>2 DEF Messages
    <3>2. Written(v, m.what) \in [key : Keyframes, params : Gens, excused : BOOLEAN]
      BY <1>3, <3>1 DEF Written, Keyframes, Knowns
    <3> QED BY <1>1, <2>2, <3>2 DEF WhepShape
  <2> QED BY <2>1, <2>2 DEF Message
<1> HIDE DEF q, m
<1>10. WhepShape'
  <2>1. queue' \in [Viewers -> Seq(Messages)]
    BY <1>1, <1>4, <1>6 DEF WhepShape
  <2>2. ctx' \in [Viewers -> Contexts]
    BY <1>1, <1>6, <1>7 DEF WhepShape
  <2> QED BY <1>1, <1>8, <1>9, <2>1, <2>2 DEF WhepShape
<1>11. Listing' /\ Source'
  BY <1>1 DEF WInv, Listing, Source, Covered
<1>12. ASSUME NEW u \in Viewers, u # v PROVE ViewerInv(u)'
  <2>1. queue'[u] = queue[u] /\ ctx'[u] = ctx[u] /\ raced'[u] = raced[u] /\ ViewerInv(u)
    BY <1>1, <1>6, <1>8, <1>12 DEF WInv, WhepShape
  <2>2. \A k \in Kinds : Seeded(u, k)' <=> Seeded(u, k)
    BY <1>1 DEF Seeded
  <2> QED BY <1>1, <2>1, <2>2, ViewerKept
<1> QED BY <1>2, <1>10, <1>11, <1>12 DEF WInv

\* The other steps of the loop change neither the channel nor what is known.
LEMMA LoopSteps ==
  ASSUME WInv, NEW v \in Viewers, UNCHANGED factory,
         Shutdown(v) \/ Disconnected(v) \/ Aac(v) \/ Connected(v) \/ ReplayInterval(v)
         \/ replay_keyframe_for_pli(v)
  PROVE  WInv'
<1>1. WhepShape /\ UNCHANGED <<source, fan, cache, sent, sessions, offer, queue, raced>>
  BY DEF WInv, Shutdown, Disconnected, Aac, Connected, ReplayInterval, replay_keyframe_for_pli
<1>2. ctx[v] \in Contexts /\ ctx[v].known \in Knowns
  BY <1>1, WhepTypes
<1>3. /\ loop' \in [Viewers -> {"off", "run", "ended"}] /\ ctx' \in [Viewers -> Contexts]
      /\ \A u \in Viewers : ctx'[u].known = ctx[u].known /\ (loop'[u] = "run" => loop[u] = "run")
  <2>1. CASE Shutdown(v) \/ Disconnected(v)
    BY <1>1, <2>1 DEF Shutdown, Disconnected, WhepShape
  <2>2. CASE Aac(v)
    <3>1. ctx[v].known.audio \in Gens
      BY <1>2 DEF Knowns
    <3> QED BY <1>1, <1>2, <2>2, <3>1 DEF Aac, WhepShape, Contexts
  <2>3. CASE Connected(v)
    BY <1>1, <1>2, <2>3 DEF Connected, WhepShape, Contexts
  <2>4. CASE ReplayInterval(v)
    BY <1>1, <1>2, <2>4 DEF ReplayInterval, WhepShape, Contexts
  <2>5. CASE replay_keyframe_for_pli(v)
    BY <1>1, <1>2, <2>5 DEF replay_keyframe_for_pli, WhepShape, Contexts
  <2> QED BY <2>1, <2>2, <2>3, <2>4, <2>5
<1>4. /\ wire' \in [Viewers -> [key : Keyframes, params : Gens, excused : BOOLEAN]]
      /\ KeyframeDecodable'
  <2>1. CASE wire' = wire
    BY <1>1, <2>1 DEF WInv, WhepShape, KeyframeDecodable
  <2>2. CASE wire' = [wire EXCEPT ![v] = Written(v, ctx[v].known.key)]
    <3> DEFINE x == ctx[v].known.key
               w == Written(v, x)
    <3>1. x \in Keyframes /\ ctx[v].known.params \in Gens
      BY <1>2 DEF Knowns
    <3>2. /\ w \in [key : Keyframes, params : Gens, excused : BOOLEAN]
          /\ w.key = x /\ w.params = (IF x.inband THEN x.gen ELSE ctx[v].known.params)
          /\ w.excused = ("params" \in raced[v])
      BY <3>1 DEF Written, Keyframes
    <3>3. "params" \in raced[v] \/ x.inband \/ ctx[v].known.params >= x.gen
      BY DEF WInv, ViewerInv, Ahead
    <3>4. x.gen \in Nat
      BY <3>1, WhepAssumption DEF Keyframes, Gens
    <3> HIDE DEF x
    <3>5. w.params >= w.key.gen \/ w.excused
      <4>1. CASE "params" \in raced[v]
        BY <3>2, <4>1
      <4>2. CASE x.inband
        BY <3>2, <3>4, <4>2
      <4>3. CASE ~ x.inband /\ ctx[v].known.params >= x.gen
        BY <3>2, <4>3
      <4> QED BY <3>3, <4>1, <4>2, <4>3
    <3>6. wire' = [wire EXCEPT ![v] = w]
      BY <2>2 DEF x
    <3> HIDE DEF w
    <3>7. wire' \in [Viewers -> [key : Keyframes, params : Gens, excused : BOOLEAN]]
          /\ wire'[v] = w /\ \A u \in Viewers : u # v => wire'[u] = wire[u]
      BY <1>1, <3>2, <3>6 DEF WhepShape
    <3> QED BY <3>5, <3>7 DEF WInv, KeyframeDecodable
  <2> QED BY <2>1, <2>2 DEF Shutdown, Disconnected, Aac, Connected, ReplayInterval, replay_keyframe_for_pli
<1>5. WhepShape'
  BY <1>1, <1>3, <1>4 DEF WhepShape
<1>6. Listing' /\ Source'
  BY <1>1 DEF WInv, Listing, Source, Covered
<1>7. ASSUME NEW u \in Viewers PROVE ViewerInv(u)'
  <2>1. queue'[u] = queue[u] /\ raced'[u] = raced[u] /\ ViewerInv(u)
    BY <1>1 DEF WInv
  <2>2. \A k \in Kinds : Seeded(u, k)' <=> Seeded(u, k)
    BY <1>1 DEF Seeded
  <2> QED BY <1>1, <1>3, <2>1, <2>2, ViewerKept
<1> QED BY <1>4, <1>5, <1>6, <1>7 DEF WInv

\* A request that moves an offer without a message, and a new publication.
LEMMA OfferSteps ==
  ASSUME WInv, NEW v \in Viewers, UNCHANGED factory,
         create_session(v) \/ List(v) \/ handle_terminate(v)
  PROVE  WInv'
<1>1. WhepShape /\ UNCHANGED <<source, cache, sent, queue, raced, wire>>
  BY DEF WInv, create_session, List, handle_terminate
<1>2. ctx[v] \in Contexts /\ ctx[v].known \in Knowns
  BY <1>1, WhepTypes
<1>3. offer' \in [Viewers -> Places] /\ \A u \in Viewers : u # v => offer'[u] = offer[u]
  <2>1. offer \in [Viewers -> Places]
    BY <1>1 DEF WhepShape
  <2>2. PICK place \in {"audio", "answered", "deleted"} : offer' = [offer EXCEPT ![v] = place]
    BY DEF create_session, List, handle_terminate
  <2>3. place \in Places
    BY <2>2 DEF Places, Kinds
  <2> QED BY <2>1, <2>2, <2>3
<1>4. /\ ctx' \in [Viewers -> Contexts] /\ loop' \in [Viewers -> {"off", "run", "ended"}]
      /\ \A u \in Viewers : ctx'[u].known = ctx[u].known /\ (u # v => loop'[u] = loop[u])
  <2>1. CASE create_session(v)
    <3>1. PICK video \in BOOLEAN : ctx' = [ctx EXCEPT ![v].video = video]
      BY <2>1 DEF create_session
    <3>2. ctx' \in [Viewers -> Contexts] /\ \A u \in Viewers : ctx'[u].known = ctx[u].known
      BY <1>1, <1>2, <3>1 DEF WhepShape, Contexts
    <3> QED BY <1>1, <2>1, <3>2 DEF create_session, WhepShape
  <2>2. CASE List(v) \/ handle_terminate(v)
    BY <1>1, <2>2 DEF List, handle_terminate, WhepShape
  <2> QED BY <2>1, <2>2
<1>5. /\ fan' \in [kind : Kinds \cup {"none"}, todo : SUBSET Viewers] /\ fan'.kind = fan.kind
      /\ fan.todo \subseteq fan'.todo /\ fan'.todo \subseteq fan.todo \cup {v}
      /\ fan'.todo = {} <=> fan.todo = {}
      /\ fan' = Quiet <=> fan = Quiet
      /\ v \in fan'.todo => v \in fan.todo \/ offer'[v] = "answered"
  <2>1. CASE fan' = fan
    BY <1>1, <2>1 DEF WhepShape
  <2>2. CASE List(v) /\ fan.todo # {} /\ fan' = [fan EXCEPT !.todo = @ \cup {v}]
    <3>1. fan \in [kind : Kinds \cup {"none"}, todo : SUBSET Viewers]
      BY <1>1 DEF WhepShape
    <3>2. fan' \in [kind : Kinds \cup {"none"}, todo : SUBSET Viewers] /\ fan'.kind = fan.kind
          /\ fan'.todo = fan.todo \cup {v}
      BY <2>2, <3>1
    <3>3. fan' # Quiet /\ fan # Quiet
      BY <2>2, <3>2 DEF Quiet
    <3>4. offer'[v] = "answered"
      BY <1>1, <2>2 DEF List, WhepShape
    <3> QED BY <2>2, <3>2, <3>3, <3>4
  <2> QED BY <2>1, <2>2 DEF create_session, List, handle_terminate
<1>6. WhepShape'
  BY <1>1, <1>3, <1>4, <1>5 DEF WhepShape
<1>7. Source' /\ KeyframeDecodable'
  BY <1>1 DEF WInv, Source, Covered, KeyframeDecodable
<1>8. sessions = {u \in Viewers : offer[u] = "answered"} /\ (fan = Quiet <=> fan.todo = {})
      /\ \A u \in fan.todo : offer[u] \in {"answered", "deleted"} /\ fan.kind \in Kinds
  BY DEF WInv, Listing
<1>9. /\ sessions' = {u \in Viewers : offer'[u] = "answered"}
      /\ v \in fan.todo => offer'[v] \in {"answered", "deleted"}
  <2>1. CASE create_session(v)
    BY <1>1, <1>3, <1>8, <2>1 DEF create_session, WhepShape
  <2>2. CASE List(v)
    BY <1>1, <1>3, <1>8, <2>2 DEF List, WhepShape
  <2>3. CASE handle_terminate(v)
    BY <1>1, <1>3, <1>8, <2>3 DEF handle_terminate, WhepShape
  <2> QED BY <2>1, <2>2, <2>3
<1>10. Listing'
  <2>1. fan'.todo # {} => fan'.kind \in Kinds
    BY <1>5, <1>8
  <2>2. \A u \in fan'.todo : offer'[u] \in {"answered", "deleted"}
    BY <1>3, <1>5, <1>8, <1>9, <1>6 DEF WhepShape
  <2>3. fan' = Quiet <=> fan'.todo = {}
    BY <1>5, <1>8
  <2> QED BY <1>9, <2>1, <2>2, <2>3 DEF Listing
<1>11. ASSUME NEW u \in Viewers PROVE ViewerInv(u)'
  <2>1. queue'[u] = queue[u] /\ raced'[u] = raced[u] /\ ViewerInv(u)
    BY <1>1 DEF WInv
  <2>2. \A k \in Kinds : loop'[u] = "run" /\ Seeded(u, k)' => loop[u] = "run" /\ Seeded(u, k)
    <3>1. CASE u # v
      BY <1>3, <1>4, <3>1 DEF Seeded
    <3>2. CASE u = v /\ create_session(v)
      <4>1. offer'[v] = "audio"
        BY <1>1, <3>2 DEF create_session, WhepShape
      <4>2. \A k \in Kinds : ~ Seeded(v, k)'
        BY <4>1 DEF Seeded, Kinds
      <4> QED BY <3>2, <4>2
    <3>3. CASE u = v /\ List(v)
      <4>1. offer[v] = "list" /\ UNCHANGED loop
        BY <3>3 DEF List
      <4>2. \A k \in Kinds : Seeded(v, k)
        BY <4>1 DEF Seeded, Kinds
      <4> QED BY <3>3, <4>1, <4>2
    <3>4. CASE u = v /\ handle_terminate(v)
      <4>1. offer'[v] = "deleted"
        BY <1>1, <3>4 DEF handle_terminate, WhepShape
      <4>2. \A k \in Kinds : ~ Seeded(v, k)'
        BY <4>1 DEF Seeded, Kinds
      <4> QED BY <3>4, <4>2
    <3> QED BY <3>1, <3>2, <3>3, <3>4
  <2> QED BY <1>1, <1>4, <1>5, <2>1, <2>2, ViewerKept
<1> QED BY <1>6, <1>7, <1>10, <1>11 DEF WInv
LEMMA PublicationStep == ASSUME WInv, Publication, UNCHANGED factory PROVE WInv'
<1>1. UNCHANGED <<fan, cache, sent, sessions, offer, queue, loop, ctx, raced, wire>>
  BY DEF Publication
<1>2. PICK band \in BOOLEAN : source' = [gen |-> source.gen + 1, inband |-> band, announced |-> FALSE]
  BY DEF Publication
<1>3. source.gen \in Nat /\ source.gen + 1 \in Gens /\ cache.audio \in Nat /\ cache.params \in Nat
  BY WhepAssumption DEF WInv, WhepShape, Publication, Gens, Knowns
<1>4. source' \in [gen : Gens, inband : BOOLEAN, announced : BOOLEAN]
  BY <1>2, <1>3
<1>5. WhepShape'
  BY <1>1, <1>4 DEF WInv, WhepShape
<1>6. Source'
  <2>1. ~source'.announced /\ source'.gen = source.gen + 1
    BY <1>2
  <2>2. cache.audio <= source.gen /\ cache.params <= source.gen
    BY DEF WInv, Source
  <2>3. cache.audio <= source'.gen /\ cache.params <= source'.gen
    BY <1>3, <2>1, <2>2
  <2> QED BY <1>1, <2>1, <2>3 DEF WInv, Source, Covered
<1>7. Listing' /\ KeyframeDecodable'
  BY <1>1 DEF WInv, Listing, KeyframeDecodable
<1>8. ASSUME NEW u \in Viewers PROVE ViewerInv(u)'
  <2>1. queue'[u] = queue[u] /\ raced'[u] = raced[u] /\ ctx'[u].known = ctx[u].known /\ ViewerInv(u)
    BY <1>1 DEF WInv
  <2>2. \A k \in Kinds : Seeded(u, k)' <=> Seeded(u, k)
    BY <1>1 DEF Seeded
  <2> QED BY <1>1, <2>1, <2>2, ViewerKept
<1> QED BY <1>5, <1>6, <1>7, <1>8 DEF WInv

\* A channel stays well-typed when a message from the cache goes into it.
LEMMA DeliverTyped ==
  ASSUME WhepShape, NEW v \in Viewers, NEW k \in Kinds, Deliver(v, k)
  PROVE  /\ queue' \in [Viewers -> Seq(Messages)]
         /\ \A u \in Viewers : u # v => queue'[u] = queue[u]
         /\ loop[v] = "run" => queue'[v] = Append(queue[v], [kind |-> k, what |-> cache[k]])
         /\ loop[v] # "run" => queue'[v] = queue[v]
<1>1. cache \in Knowns /\ queue[v] \in Seq(Messages)
  BY WhepTypes
<1>2. [kind |-> k, what |-> cache[k]] \in Messages
  BY <1>1 DEF Knowns, Messages, Kinds
<1>3. Append(queue[v], [kind |-> k, what |-> cache[k]]) \in Seq(Messages)
  BY <1>1, <1>2
<1> QED BY <1>1, <1>3 DEF Deliver, WhepShape

\* The offer handler reads one kind from the cache and puts it in the channel.
LEMMA SeedStep ==
  ASSUME WInv, NEW v \in Viewers, NEW k \in Kinds, NEW next \in Places, UNCHANGED factory,
         Seed(v, k, next), next \notin {"answered", "deleted"},
         \A c \in Kinds : c # k /\ Seeded(v, c)' => Seeded(v, c)
  PROVE  WInv'
<1>1. WhepShape /\ UNCHANGED <<source, fan, cache, sent, sessions, loop, ctx, raced, wire>>
  BY DEF WInv, Seed
<1>2. /\ offer' \in [Viewers -> Places] /\ offer'[v] = next /\ offer[v] = k
      /\ \A u \in Viewers : u # v => offer'[u] = offer[u]
  BY <1>1 DEF Seed, WhepShape
<1>3. /\ queue' \in [Viewers -> Seq(Messages)]
      /\ \A u \in Viewers : u # v => queue'[u] = queue[u]
      /\ Present(k) /\ loop[v] = "run" => queue'[v] = Append(queue[v], [kind |-> k, what |-> cache[k]])
      /\ ~ (Present(k) /\ loop[v] = "run") => queue'[v] = queue[v]
  <2>1. CASE Present(k)
    BY <1>1, <2>1, DeliverTyped DEF Seed
  <2>2. CASE ~Present(k)
    BY <1>1, <2>2 DEF Seed, WhepShape
  <2> QED BY <2>1, <2>2
<1>4. WhepShape'
  BY <1>1, <1>2, <1>3 DEF WhepShape
<1>5. Source' /\ KeyframeDecodable'
  BY <1>1 DEF WInv, Source, Covered, KeyframeDecodable
<1>6. v \notin fan.todo
  BY <1>2 DEF WInv, Listing, Kinds
<1>7. Listing'
  <2>1. v \notin sessions
    BY <1>2 DEF WInv, Listing, Kinds
  <2>2. sessions = {u \in Viewers : offer'[u] = "answered"}
    BY <1>2, <2>1 DEF WInv, Listing
  <2>3. \A u \in fan.todo : u \in Viewers /\ offer'[u] \in {"answered", "deleted"} /\ fan.kind \in Kinds
    BY <1>1, <1>2, <1>6 DEF WInv, Listing, WhepShape
  <2> QED BY <1>1, <2>2, <2>3 DEF WInv, Listing
<1>8. ASSUME NEW u \in Viewers, u # v PROVE ViewerInv(u)'
  <2>1. queue'[u] = queue[u] /\ raced'[u] = raced[u] /\ ctx'[u].known = ctx[u].known /\ ViewerInv(u)
    BY <1>1, <1>3, <1>8 DEF WInv
  <2>2. \A c \in Kinds : Seeded(u, c)' <=> Seeded(u, c)
    BY <1>2, <1>8 DEF Seeded
  <2> QED BY <1>1, <2>1, <2>2, ViewerKept
<1>9. ViewerInv(v)'
  <2>1. raced'[v] = raced[v] /\ ctx'[v].known = ctx[v].known /\ ViewerInv(v) /\ loop'[v] = loop[v]
    BY <1>1 DEF WInv
  <2>2. CASE Present(k) /\ loop[v] = "run"
    <3>1. ASSUME k = "key" PROVE Covered(cache.key) /\ ("params" \in raced[v] \/ Current(v, "params"))
      <4>1. Covered(cache.key)
        BY DEF WInv, Source
      <4>2. Seeded(v, "params")
        BY <1>2, <3>1 DEF Seeded
      <4>3. "params" \in raced[v] \/ Current(v, "params")
        BY <1>6, <2>1, <2>2, <4>2 DEF ViewerInv, UpToDate, Kinds
      <4> QED BY <4>1, <4>3
    <3> QED BY <1>1, <1>3, <2>1, <2>2, <3>1, Delivering
  <2>3. CASE loop[v] # "run"
    BY <1>1, <1>3, <2>1, <2>3, ViewerKept
  <2>4. CASE ~Present(k)
    <3>1. Below(k, ctx[v].known[k]) /\ Rank(k, ctx[v].known[k]) \in Nat
      BY <1>1, <2>1, WhepTypes DEF ViewerInv, InOrder
    <3>2. Rank(k, cache[k]) = 0
      BY <2>4 DEF Present, Rank, NoKey, Keyframe, Kinds
    <3>3. Current(v, k)
      BY <3>1, <3>2 DEF Below, Current
    <3> QED BY <1>1, <1>3, <2>1, <2>4, <3>3, ViewerKept
  <2> QED BY <2>2, <2>3, <2>4
<1> QED BY <1>4, <1>5, <1>7, <1>8, <1>9 DEF WInv

LEMMA SeedSteps ==
  ASSUME WInv, NEW v \in Viewers, UNCHANGED factory, SeedAudio(v) \/ SeedParams(v) \/ SeedKey(v)
  PROVE  WInv'
<1>1. WhepShape
  BY DEF WInv
<1>2. CASE SeedAudio(v)
  <2>1. Seed(v, "audio", "params") /\ offer'[v] = "params"
    BY <1>1, <1>2 DEF SeedAudio, Seed, WhepShape
  <2>2. \A c \in Kinds : c # "audio" /\ Seeded(v, c)' => Seeded(v, c)
    BY <2>1 DEF Seeded, Kinds
  <2> QED BY <2>1, <2>2, SeedStep DEF Places, Kinds
<1>3. CASE SeedParams(v)
  <2>1. Seed(v, "params", "key") /\ offer'[v] = "key" /\ offer[v] = "params"
    BY <1>1, <1>3 DEF SeedParams, Seed, WhepShape
  <2>2. \A c \in Kinds : c # "params" /\ Seeded(v, c)' => Seeded(v, c)
    BY <2>1 DEF Seeded, Kinds
  <2> QED BY <2>1, <2>2, SeedStep DEF Places, Kinds
<1>4. CASE SeedKey(v)
  <2>1. Seed(v, "key", "list") /\ offer'[v] = "list" /\ offer[v] = "key"
    BY <1>1, <1>4 DEF SeedKey, Seed, WhepShape
  <2>2. \A c \in Kinds : c # "key" /\ Seeded(v, c)' => Seeded(v, c)
    BY <2>1 DEF Seeded, Kinds
  <2> QED BY <2>1, <2>2, SeedStep DEF Places, Kinds
<1> QED BY <1>2, <1>3, <1>4

\* The observer's walk comes to a session.
LEMMA FanOutStep == ASSUME WInv, NEW v \in Viewers, FanOut(v), UNCHANGED factory PROVE WInv'
<1> DEFINE k == fan.kind
<1>1. /\ WhepShape /\ UNCHANGED <<source, cache, sent, sessions, offer, loop, ctx, raced, wire>>
      /\ v \in fan.todo /\ fan \in [kind : Kinds \cup {"none"}, todo : SUBSET Viewers]
  BY DEF WInv, FanOut, WhepShape
<1>2. k \in Kinds /\ offer[v] \in {"answered", "deleted"}
  BY <1>1 DEF WInv, Listing
<1>3. /\ queue' \in [Viewers -> Seq(Messages)]
      /\ \A u \in Viewers : u # v => queue'[u] = queue[u]
      /\ v \in sessions /\ loop[v] = "run" => queue'[v] = Append(queue[v], [kind |-> k, what |-> cache[k]])
      /\ ~ (v \in sessions /\ loop[v] = "run") => queue'[v] = queue[v]
  <2>1. CASE v \in sessions
    <3>1. Deliver(v, k)
      BY <2>1 DEF FanOut
    <3> QED BY <1>1, <1>2, <2>1, <3>1, DeliverTyped
  <2>2. CASE v \notin sessions
    BY <1>1, <2>2 DEF FanOut, WhepShape
  <2> QED BY <2>1, <2>2
<1>4. /\ fan'.todo = fan.todo \ {v} /\ fan' \in [kind : Kinds \cup {"none"}, todo : SUBSET Viewers]
      /\ fan'.todo # {} => fan'.kind = k
      /\ fan' = Quiet <=> fan'.todo = {}
  <2>1. CASE fan.todo = {v}
    BY <1>1, <2>1 DEF FanOut, Quiet
  <2>2. CASE fan.todo # {v}
    BY <1>1, <2>2 DEF FanOut, Quiet
  <2> QED BY <2>1, <2>2
<1> HIDE DEF k
<1>5. WhepShape'
  BY <1>1, <1>3, <1>4 DEF WhepShape
<1>6. Source' /\ KeyframeDecodable'
  BY <1>1 DEF WInv, Source, Covered, KeyframeDecodable
<1>7. Listing'
  <2>1. sessions = {u \in Viewers : offer[u] = "answered"} /\ \A u \in fan.todo : offer[u] \in {"answered", "deleted"}
    BY DEF WInv, Listing
  <2>2. \A u \in fan'.todo : offer[u] \in {"answered", "deleted"} /\ fan'.kind \in Kinds
    BY <1>2, <1>4, <2>1
  <2> QED BY <1>1, <1>4, <2>1, <2>2 DEF Listing
<1>8. \A u \in Viewers, c \in Kinds : Seeded(u, c)' <=> Seeded(u, c)
  BY <1>1 DEF Seeded
<1>9. \A u \in Viewers : u # v /\ u \in fan.todo => u \in fan'.todo /\ fan'.kind = fan.kind
  BY <1>4 DEF k
<1>10. ASSUME NEW u \in Viewers, u # v PROVE ViewerInv(u)'
  <2>1. queue'[u] = queue[u] /\ raced'[u] = raced[u] /\ ctx'[u].known = ctx[u].known /\ ViewerInv(u)
    BY <1>1, <1>3, <1>10 DEF WInv
  <2> QED BY <1>1, <1>8, <1>9, <1>10, <2>1, ViewerKept
<1>11. ViewerInv(v)'
  <2>1. raced'[v] = raced[v] /\ ctx'[v].known = ctx[v].known /\ ViewerInv(v) /\ loop'[v] = loop[v]
    BY <1>1 DEF WInv
  <2>2. CASE v \in sessions /\ loop[v] = "run"
    <3>1. ASSUME k = "key" PROVE Covered(cache.key) /\ ("params" \in raced[v] \/ Current(v, "params"))
      <4>1. Covered(cache.key)
        BY DEF WInv, Source
      <4>2. Seeded(v, "params")
        BY <2>2 DEF Seeded, WInv, Listing
      <4>3. "params" \in raced[v] \/ Current(v, "params")
        BY <2>1, <2>2, <3>1, <4>2 DEF ViewerInv, UpToDate, Kinds, k
      <4> QED BY <4>1, <4>3
    <3>2. \A c \in Kinds : c # k /\ v \in fan.todo /\ fan.kind = c => v \in fan'.todo /\ fan'.kind = c
      BY DEF k
    <3> QED BY <1>1, <1>2, <1>3, <1>8, <2>1, <2>2, <3>1, <3>2, Delivering
  <2>3. CASE ~ (v \in sessions /\ loop[v] = "run")
    <3>1. queue'[v] = queue[v]
      BY <1>3, <2>3
    <3>2. \A c \in Kinds : ~ (loop[v] = "run" /\ Seeded(v, c))
      <4>1. offer[v] = "deleted" \/ loop[v] # "run"
        BY <1>2, <2>3 DEF WInv, Listing
      <4> QED BY <4>1 DEF Seeded, Kinds
    <3>3. InOrder(v)'
      BY <1>1, <2>1, <3>1 DEF ViewerInv, InOrder, Below
    <3>4. AllCovered(v)'
      BY <1>1, <2>1, <3>1 DEF ViewerInv, AllCovered, Covered
    <3>5. Ahead(v)'
      BY <1>1, <2>1, <3>1 DEF ViewerInv, Ahead
    <3>6. UpToDate(v)'
      BY <1>8, <2>1, <3>2 DEF UpToDate
    <3> QED BY <3>3, <3>4, <3>5, <3>6 DEF ViewerInv
  <2> QED BY <2>2, <2>3
<1> QED BY <1>5, <1>6, <1>7, <1>10, <1>11 DEF WInv
\* The observer replaces what the cache holds of a kind by something no older.
LEMMA ObserveStep ==
  ASSUME WInv, NEW k \in Kinds, NEW what, Observe(k, what), UNCHANGED factory,
         [cache EXCEPT ![k] = what] \in Knowns,
         Rank(k, cache[k]) <= Rank(k, what), Rank(k, cache[k]) = Rank(k, what) => what = cache[k],
         source' \in [gen : Gens, inband : BOOLEAN, announced : BOOLEAN],
         sent' \in [key : 0..MaxKeys, config : 0..MaxConfigs], Source'
  PROVE  WInv'
<1>1. WhepShape /\ fan = Quiet /\ UNCHANGED <<sessions, offer, queue, loop, ctx, wire>>
  BY DEF WInv, Observe
<1>2. /\ cache' \in Knowns /\ cache'[k] = what
      /\ \A c \in Kinds : c # k => cache'[c] = cache[c]
  BY <1>1 DEF Observe, WhepShape, Knowns, Kinds
<1>3. cache.params \in Nat /\ cache'.params \in Nat /\ cache.params <= cache'.params
  <2>1. cache.params \in Nat /\ cache'.params \in Nat
    BY <1>1, <1>2, WhepAssumption DEF WhepShape, Knowns, Gens
  <2>2. CASE k = "params"
    BY <1>2, <2>1, <2>2 DEF Rank
  <2>3. CASE k # "params"
    BY <1>2, <2>1, <2>3 DEF Kinds
  <2> QED BY <2>1, <2>2, <2>3
<1>4. /\ sessions = {v \in Viewers : offer[v] = "answered"} /\ fan.todo = {}
      /\ sessions \subseteq Viewers
  BY <1>1 DEF WInv, Listing
<1>5. /\ fan' \in [kind : Kinds \cup {"none"}, todo : SUBSET Viewers]
      /\ fan'.todo = sessions
      /\ fan' = Quiet <=> fan'.todo = {}
      /\ fan'.todo # {} => fan'.kind = k
  <2>1. CASE sessions = {}
    BY <1>4, <2>1 DEF Observe, Quiet
  <2>2. CASE sessions # {}
    BY <1>4, <2>2 DEF Observe, Quiet
  <2> QED BY <2>1, <2>2
<1>6. /\ raced' \in [Viewers -> SUBSET Kinds]
      /\ \A v \in Viewers : raced[v] \subseteq raced'[v] /\ raced'[v] \subseteq raced[v] \cup {k}
      /\ \A v \in PastSeed(k) : k \in raced'[v]
  BY <1>1 DEF Observe, WhepShape, PastSeed
<1>7. WhepShape'
  BY <1>1, <1>2, <1>5, <1>6 DEF WhepShape
<1>8. Listing'
  BY <1>1, <1>4, <1>5 DEF Listing
<1>9. KeyframeDecodable'
  BY <1>1 DEF WInv, KeyframeDecodable
<1>10. ASSUME NEW v \in Viewers PROVE ViewerInv(v)'
  <2>1. ViewerInv(v) /\ queue[v] \in Seq(Messages) /\ ctx[v].known \in Knowns
        /\ \A c \in Kinds : Rank(c, ctx[v].known[c]) \in Nat /\ Rank(c, cache[c]) \in Nat
        /\ \A i \in DOMAIN queue[v] : /\ queue[v][i] \in Messages
                                      /\ Rank(queue[v][i].kind, queue[v][i].what) \in Nat
    BY <1>1, WhepTypes DEF WInv
  <2>2. Rank(k, what) \in Nat
    BY <1>2, WhepAssumption DEF Knowns, Kinds, Rank, Gens, Keyframes
  <2>3. ASSUME NEW c \in Kinds, NEW x, Rank(c, x) \in Nat, Below(c, x) PROVE Below(c, x)'
    <3>1. CASE c = k
      BY <1>2, <2>1, <2>2, <2>3, <3>1 DEF Below, Rank
    <3>2. CASE c # k
      BY <1>2, <2>3, <3>2 DEF Below, Rank
    <3> QED BY <3>1, <3>2
  <2>4. InOrder(v)'
    BY <1>1, <2>1, <2>3 DEF ViewerInv, InOrder
  <2>5. ASSUME NEW x, x.gen \in Nat, Covered(x) PROVE Covered(x)'
    BY <1>3, <2>5 DEF Covered
  <2>6. AllCovered(v)'
    <3>1. ctx[v].known.key.gen \in Nat
      BY <2>1, WhepAssumption DEF Knowns, Keyframes, Gens
    <3>2. \A i \in DOMAIN queue[v] : queue[v][i].kind = "key" => queue[v][i].what.gen \in Nat
      <4>1. ASSUME NEW m \in Messages, m.kind = "key" PROVE m.what.gen \in Nat
        BY <4>1, WhepAssumption DEF Messages, Keyframes, Gens
      <4> QED BY <2>1, <4>1
    <3> QED BY <1>1, <2>1, <2>5, <3>1, <3>2 DEF ViewerInv, AllCovered
  <2>7. UpToDate(v)'
    <3> SUFFICES ASSUME NEW c \in Kinds, loop[v] = "run", Seeded(v, c), c \notin raced'[v]
                 PROVE  (v \in fan'.todo /\ fan'.kind = c) \/ Current(v, c)'
      BY <1>1 DEF UpToDate, Seeded
    <3>1. CASE c = k
      <4>1. v \notin PastSeed(k)
        BY <1>6, <3>1
      <4>2. offer[v] = "answered"
        BY <3>1, <4>1 DEF Seeded, PastSeed, Kinds
      <4> QED BY <1>4, <1>5, <3>1, <4>2
    <3>2. CASE c # k
      <4>1. c \notin raced[v] /\ v \notin fan.todo
        BY <1>4, <1>6
      <4>2. Current(v, c)
        BY <2>1, <4>1 DEF ViewerInv, UpToDate
      <4> QED BY <1>1, <1>2, <3>2, <4>2 DEF Current
    <3> QED BY <3>1, <3>2
  <2>8. Ahead(v)'
    BY <1>1, <1>6, <2>1 DEF ViewerInv, Ahead
  <2> QED BY <2>4, <2>6, <2>7, <2>8 DEF ViewerInv
<1> QED BY <1>7, <1>8, <1>9, <1>10 DEF WInv

\* A configuration has the number of its publication, a keyframe the next one.
LEMMA PublisherSteps ==
  ASSUME WInv, UNCHANGED factory, on_audio_config \/ on_video_config \/ on_raw_sample
  PROVE  WInv'
<1>1. WhepShape /\ Source
  BY DEF WInv
<1>2. /\ source.gen \in Gens /\ source.inband \in BOOLEAN /\ source.announced \in BOOLEAN
      /\ sent.key \in 0..MaxKeys /\ sent.config \in 0..MaxConfigs
      /\ cache.audio \in Gens /\ cache.params \in Gens /\ cache.key \in Keyframes
  BY <1>1 DEF WhepShape, Knowns
<1>3. source.gen \in Nat /\ cache.audio \in Nat /\ cache.params \in Nat /\ cache.key.n \in Nat
      /\ cache.key.gen \in Nat /\ sent.key \in Nat /\ sent.config \in Nat /\ MaxKeys \in Nat /\ MaxConfigs \in Nat
  BY <1>2, WhepAssumption DEF Gens, Keyframes
<1>4. cache.audio <= source.gen /\ cache.params <= source.gen /\ cache.key.n <= sent.key /\ Covered(cache.key)
      /\ (source.announced => cache.params >= source.gen)
  BY <1>1 DEF Source
<1>5. ASSUME sent' = [sent EXCEPT !.config = @ + 1], sent.config < MaxConfigs
      PROVE  sent' \in [key : 0..MaxKeys, config : 0..MaxConfigs] /\ sent'.key = sent.key
  <2>1. sent.config + 1 \in 0..MaxConfigs
    BY <1>3, <1>5
  <2> QED BY <1>1, <1>5, <2>1 DEF WhepShape
<1>6. CASE on_audio_config
  <2>1. /\ Observe("audio", source.gen) /\ UNCHANGED source
        /\ sent' = [sent EXCEPT !.config = @ + 1] /\ sent.config < MaxConfigs
    BY <1>6 DEF on_audio_config
  <2>2. sent' \in [key : 0..MaxKeys, config : 0..MaxConfigs] /\ sent'.key = sent.key
    BY <1>5, <2>1
  <2>3. /\ [cache EXCEPT !["audio"] = source.gen] \in Knowns
        /\ cache'.audio = source.gen /\ cache'.params = cache.params /\ cache'.key = cache.key
    BY <1>1, <1>2, <2>1 DEF Observe, WhepShape, Knowns
  <2>4. Source'
    BY <1>3, <1>4, <2>1, <2>2, <2>3 DEF Source, Covered
  <2>5. source' \in [gen : Gens, inband : BOOLEAN, announced : BOOLEAN]
    BY <1>1, <2>1 DEF WhepShape
  <2>6. /\ Rank("audio", cache["audio"]) <= Rank("audio", source.gen)
        /\ Rank("audio", cache["audio"]) = Rank("audio", source.gen) => source.gen = cache["audio"]
    BY <1>4 DEF Rank
  <2>7. "audio" \in Kinds
    BY DEF Kinds
  <2> QED BY <2>1, <2>2, <2>3, <2>4, <2>5, <2>6, <2>7, ObserveStep
<1>7. CASE on_video_config
  <2>1. /\ Observe("params", source.gen) /\ source' = [source EXCEPT !.announced = TRUE]
        /\ sent' = [sent EXCEPT !.config = @ + 1] /\ sent.config < MaxConfigs
    BY <1>7 DEF on_video_config
  <2>2. sent' \in [key : 0..MaxKeys, config : 0..MaxConfigs] /\ sent'.key = sent.key
    BY <1>5, <2>1
  <2>3. /\ [cache EXCEPT !["params"] = source.gen] \in Knowns
        /\ cache'.audio = cache.audio /\ cache'.params = source.gen /\ cache'.key = cache.key
    BY <1>1, <1>2, <2>1 DEF Observe, WhepShape, Knowns
  <2>4. source' \in [gen : Gens, inband : BOOLEAN, announced : BOOLEAN] /\ source'.gen = source.gen
    BY <1>1, <2>1 DEF WhepShape
  <2>5. Source'
    <3>1. cache'.params >= source'.gen /\ cache'.audio <= source'.gen /\ cache'.params <= source'.gen
      BY <1>3, <1>4, <2>3, <2>4
    <3>2. Covered(cache.key)'
      BY <1>3, <1>4, <2>3 DEF Covered
    <3> QED BY <1>4, <2>2, <2>3, <3>1, <3>2 DEF Source
  <2>6. /\ Rank("params", cache["params"]) <= Rank("params", source.gen)
        /\ Rank("params", cache["params"]) = Rank("params", source.gen) => source.gen = cache["params"]
    BY <1>4 DEF Rank
  <2>7. "params" \in Kinds
    BY DEF Kinds
  <2> QED BY <2>1, <2>2, <2>3, <2>4, <2>5, <2>6, <2>7, ObserveStep
<1>8. CASE on_raw_sample
  <2> DEFINE x == Keyframe(sent.key + 1, source.gen, source.inband)
  <2>1. /\ Observe("key", x) /\ UNCHANGED source
        /\ sent' = [sent EXCEPT !.key = @ + 1] /\ sent.key < MaxKeys
        /\ source.inband \/ source.announced
    BY <1>8 DEF on_raw_sample
  <2>2. sent' \in [key : 0..MaxKeys, config : 0..MaxConfigs] /\ sent'.key = sent.key + 1
    <3>1. sent \in [key : 0..MaxKeys, config : 0..MaxConfigs]
      BY <1>1 DEF WhepShape
    <3>2. sent.key + 1 \in 0..MaxKeys
      BY <1>3, <2>1, <3>1
    <3>3. sent' = [sent EXCEPT !.key = sent.key + 1]
      BY <2>1
    <3> QED BY <3>1, <3>2, <3>3
  <2>3. x \in Keyframes /\ x.n = sent.key + 1 /\ x.gen = source.gen /\ x.inband = source.inband
    BY <1>2, <1>3, <2>1 DEF Keyframe, Keyframes
  <2> HIDE DEF x
  <2>4. /\ [cache EXCEPT !["key"] = x] \in Knowns
        /\ cache'.audio = cache.audio /\ cache'.params = cache.params /\ cache'.key = x
    BY <1>1, <2>1, <2>3 DEF Observe, WhepShape, Knowns
  <2>5. Source'
    <3>1. x.inband \/ cache'.params >= x.gen
      BY <1>4, <2>1, <2>3, <2>4 DEF Covered
    <3>2. x.n <= sent'.key
      BY <1>3, <2>2, <2>3
    <3> QED BY <1>4, <2>1, <2>4, <3>1, <3>2 DEF Source, Covered
  <2>6. source' \in [gen : Gens, inband : BOOLEAN, announced : BOOLEAN]
    BY <1>1, <2>1 DEF WhepShape
  <2>7. /\ Rank("key", cache["key"]) <= Rank("key", x)
        /\ Rank("key", cache["key"]) # Rank("key", x)
    BY <1>3, <1>4, <2>3 DEF Rank
  <2>8. "key" \in Kinds
    BY DEF Kinds
  <2> QED BY <2>1, <2>2, <2>4, <2>5, <2>6, <2>7, <2>8, ObserveStep
<1> QED BY <1>6, <1>7, <1>8

LEMMA WhepStep == ASSUME WInv, [WhepNext]_whep PROVE WInv'
<1>1. CASE UNCHANGED whep
  <2>1. WhepShape' /\ Listing' /\ Source' /\ KeyframeDecodable'
    BY <1>1 DEF whep, WInv, WhepShape, Listing, Source, Covered, KeyframeDecodable
  <2>2. ASSUME NEW v \in Viewers PROVE ViewerInv(v)'
    <3>1. InOrder(v)' /\ AllCovered(v)'
      BY <1>1 DEF whep, WInv, ViewerInv, InOrder, Below, AllCovered, Covered
    <3>2. UpToDate(v)'
      <4>1. \A k \in Kinds : (Seeded(v, k)' <=> Seeded(v, k)) /\ (Current(v, k)' <=> Current(v, k))
        BY <1>1 DEF whep, Seeded, Current
      <4>2. UpToDate(v)
        BY DEF WInv, ViewerInv
      <4>3. UNCHANGED <<loop, raced, fan>>
        BY <1>1 DEF whep
      <4> QED BY <4>1, <4>2, <4>3 DEF UpToDate
    <3>3. Ahead(v)'
      BY <1>1 DEF whep, WInv, ViewerInv, Ahead
    <3> QED BY <3>1, <3>2, <3>3 DEF ViewerInv
  <2> QED BY <2>1, <2>2 DEF WInv
<1>2. CASE WhepNext
  <2>1. UNCHANGED factory
    BY <1>2 DEF WhepNext
  <2> QED BY <1>2, <2>1, PublicationStep, PublisherSteps, FanOutStep, OfferSteps, SeedSteps, MessageWhole,
             LoopSteps DEF WhepNext, PollLoop
<1> QED BY <1>1, <1>2

-----------------------------------------------------------------------------
(* The WebSocket relay and the recorder.                                   *)

Frames == [group : Nat, kind : {"init", "media"}]
Recordings == [at : {"off", "open", "early", "late", "run", "done"}, pos : 0..MaxFrames, init : BOOLEAN,
               segments : 0..MaxFrames]

\* Everything has its type, the tracks, the bus and the channel included.
WsShape ==
  /\ track \in [Pubs -> Seq(Frames)] /\ \A p \in Pubs : Len(track[p]) <= MaxFrames
  /\ bus \in [events : Seq({"started", "stopped"}), missed : BOOLEAN] /\ Len(bus.events) <= BusRoom
  /\ recorder \in [active : BOOLEAN, of : [Pubs -> Recordings]]
  /\ viewer \in [at : ViewerPlaces, pub : Pubs \cup {0},
                 peer : BOOLEAN, client : BOOLEAN]
  /\ relay \in [at : {"off", "read", "send", "done"}, pos : 0..MaxFrames]
  /\ chan \in Seq(Frames) /\ Len(chan) <= Room /\ got \in Seq(Frames)

\* The name resolves to the publication of the session, whose open group has a
\* frame.
Session ==
  /\ ingest \in [pub : Pubs \cup {0}, at : {"off", "created", "tracks", "loop", "dropping"},
                 config : BOOLEAN, open : BOOLEAN]
  /\ origin = IF ingest.at = "off" THEN NoOrigin ELSE ingest.pub
  /\ ingest.at # "off" => ingest.pub \in Pubs
  /\ ingest.at # "off" /\ ingest.open => Len(track[ingest.pub]) > 0

\* The init segments of a track are the heads of its groups.
Marked(t) ==
  \A i \in 1..Len(t) : t[i].kind = "init" <=> (i = 1 \/ t[i - 1].group # t[i].group)

\* A recording that has no init segment yet is at the head of a group.
RecordingInv(p) ==
  LET r == recorder.of[p] IN
  /\ r.pos <= Len(track[p]) /\ r.segments <= r.pos
  /\ ~r.init => r.segments = 0 /\ r.pos \in Starts(p)

\* What the client has, what the channel holds and what the task is at are
\* consecutive in the track, from the head of a group on.
ReadFrom(s) ==
  LET t == track[viewer.pub] IN
  /\ s \in Starts(viewer.pub)
  /\ s + Len(got) <= Len(t) /\ \A i \in 1..Len(got) : got[i] = t[s + i]
  /\ viewer.at \in {"loop", "sending", "leaving"} =>
       /\ s + Len(got) + Len(chan) <= Len(t)
       /\ \A i \in 1..Len(chan) : chan[i] = t[s + Len(got) + i]
       /\ relay.at = "read" => relay.pos = s + Len(got) + Len(chan)
       /\ relay.at = "send" => relay.pos = s + Len(got) + Len(chan) + 1
RelayInv ==
  /\ viewer.at # "off" => viewer.pub \in Pubs
  /\ relay.at = "off" => got = <<>> /\ chan = <<>>
  /\ relay.at # "off" =>
       /\ viewer.at \in {"loop", "sending", "leaving", "closed"} /\ relay.pos <= Len(track[viewer.pub])
       /\ \E s \in Nat : ReadFrom(s)

\* As long as no event is lost, starts and stops alternate on the bus, and the
\* recorder that takes a start has taken the stop before it.
Announced == ingest.at \in {"tracks", "loop"}
BusInStep ==
  LET e == bus.events IN
  bus.missed \/
    /\ \A i \in 1..Len(e) - 1 : e[i] # e[i + 1]
    /\ e # <<>> => (e[Len(e)] = "started" <=> Announced)
    /\ e # <<>> /\ e[1] = "started" => ~recorder.active
    /\ e = <<>> /\ ~Announced => ~recorder.active
    /\ e = <<>> /\ Announced => recorder.of[origin].at \in {"open", "run", "early"}

SInv ==
  /\ WsShape /\ Session /\ RelayInv /\ BusInStep
  /\ \A p \in Pubs : Marked(track[p]) /\ RecordingInv(p)
LEMMA SInvImplies == SInv => WsInv
<1> SUFFICES ASSUME SInv PROVE WsInv
  OBVIOUS
<1>1. WsShape /\ Session
  BY DEF SInv
<1>2. WsTypeOK
  <2>1. origin \in Pubs \cup {NoOrigin}
    BY <1>1 DEF Session
  <2>2. recorder.active \in BOOLEAN /\ recorder.of \in [Pubs -> Recordings] /\ bus.missed \in BOOLEAN
    BY <1>1 DEF WsShape
  <2>3. ingest \in [pub : Pubs \cup {0}, at : {"off", "created", "tracks", "loop", "dropping"},
                    config : BOOLEAN, open : BOOLEAN]
    BY <1>1 DEF Session
  <2> QED BY <1>1, <2>1, <2>2, <2>3 DEF WsShape, WsTypeOK, Recordings
<1>3. InitFirst
  <2>1. ASSUME NEW p \in Pubs, recorder.of[p].segments > 0 PROVE recorder.of[p].init
    <3>1. ~recorder.of[p].init => recorder.of[p].segments = 0
      BY DEF SInv, RecordingInv
    <3> QED BY <2>1, <3>1
  <2>2. ASSUME NEW i \in DOMAIN got
        PROVE  got[i].kind = "init" <=> (i = 1 \/ got[i - 1].group # got[i].group)
    <3>1. got \in Seq(Frames) /\ i \in 1..Len(got) /\ Len(got) \in Nat
      BY <1>1, <2>2 DEF WsShape
    <3>2. relay.at # "off"
      BY <3>1 DEF SInv, RelayInv
    <3> DEFINE t == track[viewer.pub]
    <3>3. viewer.pub \in Pubs
      BY <3>2 DEF SInv, RelayInv
    <3>4. PICK s \in Nat : ReadFrom(s)
      BY <3>2 DEF SInv, RelayInv
    <3>5. Marked(t) /\ t \in Seq(Frames)
      BY <1>1, <3>3 DEF SInv, WsShape
    <3>6. s + i \in 1..Len(t) /\ got[i] = t[s + i] /\ (i # 1 => i - 1 \in 1..Len(got) /\ got[i - 1] = t[s + (i - 1)])
      <4>1. Len(t) \in Nat
        BY <3>5
      <4>2. s + Len(got) <= Len(t) /\ \A j \in 1..Len(got) : got[j] = t[s + j]
        BY <3>4 DEF ReadFrom
      <4> HIDE DEF t
      <4>3. s + i \in 1..Len(t)
        BY <3>1, <3>4, <4>1, <4>2
      <4>4. i # 1 => i - 1 \in 1..Len(got)
        BY <3>1
      <4> QED BY <3>1, <4>2, <4>3, <4>4
    <3>7. s = 0 \/ (s \in 1..Len(t) - 1 /\ t[s].group # t[s + 1].group)
      BY <3>4 DEF ReadFrom, Starts
    <3> HIDE DEF t
    <3>8. t[s + i].kind = "init" <=> (s + i = 1 \/ t[s + i - 1].group # t[s + i].group)
      BY <3>5, <3>6 DEF Marked
    <3>9. CASE i = 1
      <4>1. s + i - 1 = s /\ s + i = s + 1
        BY <3>9
      <4>2. s + i = 1 \/ t[s + i - 1].group # t[s + i].group
        BY <3>7, <3>9, <4>1
      <4> QED BY <3>6, <3>8, <3>9, <4>2
    <3>10. CASE i # 1
      <4>1. s + i # 1 /\ s + (i - 1) = s + i - 1
        BY <3>1, <3>10
      <4> QED BY <3>6, <3>8, <3>10, <4>1
    <3> QED BY <3>9, <3>10
  <2> QED BY <2>1, <2>2 DEF InitFirst
<1>4. LiveIsRecorded
  BY DEF SInv, BusInStep, Announced, LiveIsRecorded
<1> QED BY <1>2, <1>3, <1>4 DEF WsInv

LEMMA InitSInv == WsInit => SInv
<1> SUFFICES ASSUME WsInit PROVE SInv
  OBVIOUS
<1>0. MaxFrames \in Nat /\ Room \in Nat /\ BusRoom \in Nat
  BY WsAssumption
<1>1. NoRecording \in Recordings
  BY <1>0 DEF NoRecording, Recordings
<1>2. WsShape
  <2>1. track \in [Pubs -> Seq(Frames)] /\ \A p \in Pubs : track[p] = <<>> /\ Len(track[p]) <= MaxFrames
    BY <1>0 DEF WsInit
  <2>2. bus \in [events : Seq({"started", "stopped"}), missed : BOOLEAN] /\ Len(bus.events) <= BusRoom
    BY <1>0 DEF WsInit
  <2>3. recorder \in [active : BOOLEAN, of : [Pubs -> Recordings]]
    BY <1>1 DEF WsInit
  <2>4. viewer \in [at : ViewerPlaces, pub : Pubs \cup {0},
                    peer : BOOLEAN, client : BOOLEAN]
    BY DEF WsInit, ViewerPlaces
  <2>5. relay \in [at : {"off", "read", "send", "done"}, pos : 0..MaxFrames]
    BY <1>0 DEF WsInit, NoReader
  <2>6. chan \in Seq(Frames) /\ Len(chan) <= Room /\ got \in Seq(Frames)
    BY <1>0 DEF WsInit
  <2> QED BY <2>1, <2>2, <2>3, <2>4, <2>5, <2>6 DEF WsShape
<1>3. Session
  BY DEF WsInit, Session, Off, NoOrigin
<1>4. RelayInv
  BY DEF WsInit, RelayInv, NoReader
<1>5. BusInStep
  BY DEF WsInit, BusInStep, Announced, Off
<1>6. ASSUME NEW p \in Pubs PROVE Marked(track[p]) /\ RecordingInv(p)
  <2>1. track[p] = <<>> /\ recorder.of[p] = NoRecording
    BY DEF WsInit
  <2>2. NoRecording.pos = 0 /\ NoRecording.segments = 0 /\ NoRecording.init = FALSE
    BY DEF NoRecording
  <2> QED BY <2>1, <2>2 DEF Marked, RecordingInv, Starts
<1> QED BY <1>2, <1>3, <1>4, <1>5, <1>6 DEF SInv

\* Longer tracks: every frame stays where it is, and so does every place where
\* a subscription may begin.
Longer(t, u) == Len(t) <= Len(u) /\ \A i \in 1..Len(t) : u[i] = t[i]

LEMMA StartsKept ==
  ASSUME NEW p \in Pubs, track[p] \in Seq(Frames), track'[p] \in Seq(Frames), Longer(track[p], track'[p])
  PROVE  Starts(p) \subseteq Starts(p)'
<1>1. Len(track[p]) \in Nat /\ Len(track'[p]) \in Nat
  OBVIOUS
<1> SUFFICES ASSUME NEW n \in Starts(p) PROVE n \in Starts(p)'
  OBVIOUS
<1>2. CASE n = 0
  BY <1>2 DEF Starts
<1>3. CASE n \in 1..Len(track[p]) - 1 /\ track[p][n].group # track[p][n + 1].group
  <2>1. n \in 1..Len(track[p]) /\ n + 1 \in 1..Len(track[p]) /\ n \in 1..Len(track'[p]) - 1
    BY <1>1, <1>3 DEF Longer
  <2>2. track'[p][n] = track[p][n] /\ track'[p][n + 1] = track[p][n + 1]
    BY <2>1 DEF Longer
  <2> QED BY <1>3, <2>1, <2>2 DEF Starts
<1> QED BY <1>2, <1>3 DEF Starts

\* What the readers of the tracks have read stays consecutive.
LEMMA ReadersKept ==
  ASSUME SInv, UNCHANGED <<viewer, relay, chan, got>>, UNCHANGED recorder,
         track' \in [Pubs -> Seq(Frames)], \A p \in Pubs : Longer(track[p], track'[p])
  PROVE  RelayInv' /\ \A p \in Pubs : RecordingInv(p)'
<1>1. WsShape /\ \A p \in Pubs : track[p] \in Seq(Frames) /\ track'[p] \in Seq(Frames)
      /\ Len(track[p]) \in Nat /\ Len(track'[p]) \in Nat
  BY DEF SInv, WsShape
<1>2. \A p \in Pubs : Starts(p) \subseteq Starts(p)'
  BY <1>1, StartsKept
<1>3. ASSUME NEW p \in Pubs PROVE RecordingInv(p)'
  <2>1. recorder.of[p].pos \in Nat
    BY <1>1 DEF WsShape, Recordings
  <2> QED BY <1>1, <1>2, <2>1 DEF SInv, RecordingInv, Longer
<1>4. RelayInv'
  <2>1. RelayInv
    BY DEF SInv
  <2>2. CASE relay.at = "off"
    BY <2>1, <2>2 DEF RelayInv
  <2>3. CASE relay.at # "off"
    <3> DEFINE t == track[viewer.pub]
               u == track'[viewer.pub]
    <3>1. viewer.pub \in Pubs /\ relay.pos \in Nat
      BY <1>1, <2>1, <2>3 DEF RelayInv, WsShape
    <3>2. /\ Len(t) \in Nat /\ Len(u) \in Nat /\ Len(t) <= Len(u) /\ \A i \in 1..Len(t) : u[i] = t[i]
          /\ Len(got) \in Nat /\ Len(chan) \in Nat
      BY <1>1, <3>1 DEF Longer, WsShape
    <3>3. PICK s \in Nat : ReadFrom(s)
      BY <2>1, <2>3 DEF RelayInv
    <3>4. /\ s \in Starts(viewer.pub)
          /\ s + Len(got) <= Len(t) /\ \A i \in 1..Len(got) : got[i] = t[s + i]
          /\ viewer.at \in {"loop", "sending", "leaving"} =>
               /\ s + Len(got) + Len(chan) <= Len(t)
               /\ \A i \in 1..Len(chan) : chan[i] = t[s + Len(got) + i]
               /\ relay.at = "read" => relay.pos = s + Len(got) + Len(chan)
               /\ relay.at = "send" => relay.pos = s + Len(got) + Len(chan) + 1
      BY <3>3 DEF ReadFrom
    <3> HIDE DEF t, u
    <3>5. s + Len(got) <= Len(u) /\ \A i \in 1..Len(got) : got[i] = u[s + i]
      <4>1. \A i \in 1..Len(got) : s + i \in 1..Len(t)
        BY <3>2, <3>4
      <4> QED BY <3>2, <3>4, <4>1
    <3>6. ASSUME viewer.at \in {"loop", "sending", "leaving"}
          PROVE  s + Len(got) + Len(chan) <= Len(u) /\ \A i \in 1..Len(chan) : chan[i] = u[s + Len(got) + i]
      <4>1. \A i \in 1..Len(chan) : s + Len(got) + i \in 1..Len(t)
        BY <3>2, <3>4, <3>6
      <4> QED BY <3>2, <3>4, <3>6, <4>1
    <3>7. s \in Starts(viewer.pub)'
      BY <1>2, <3>1, <3>4
    <3>8. ReadFrom(s)'
      BY <3>4, <3>5, <3>6, <3>7 DEF ReadFrom, u
    <3>9. relay.pos <= Len(u)
      BY <2>1, <2>3, <3>1, <3>2 DEF RelayInv, t
    <3> QED BY <2>1, <2>3, <3>8, <3>9 DEF RelayInv, u
  <2> QED BY <2>2, <2>3
<1> QED BY <1>3, <1>4
\* The bus takes an event, or loses one.
LEMMA EmitStep ==
  ASSUME WsShape, NEW event \in {"started", "stopped"}, Emit(event)
  PROVE  /\ bus' \in [events : Seq({"started", "stopped"}), missed : BOOLEAN] /\ Len(bus'.events) <= BusRoom
         /\ bus'.missed \/ (~bus.missed /\ bus'.events = Append(bus.events, event))
<1> DEFINE e == bus.events
<1>1. bus \in [events : Seq({"started", "stopped"}), missed : BOOLEAN] /\ e \in Seq({"started", "stopped"})
      /\ Len(e) <= BusRoom /\ BusRoom \in Nat \ {0} /\ Len(e) \in Nat
  BY WsAssumption DEF WsShape
<1>2. CASE Len(e) < BusRoom
  <2>1. bus' = [bus EXCEPT !.events = Append(e, event)]
    BY <1>2 DEF Emit
  <2>2. Append(e, event) \in Seq({"started", "stopped"}) /\ Len(Append(e, event)) = Len(e) + 1
    BY <1>1
  <2>3. bus'.events = Append(e, event) /\ bus'.missed = bus.missed
        /\ bus' \in [events : Seq({"started", "stopped"}), missed : BOOLEAN]
    BY <1>1, <2>1, <2>2
  <2> HIDE DEF e
  <2>4. Len(bus'.events) <= BusRoom
    BY <1>1, <1>2, <2>2, <2>3
  <2>5. bus.missed \in BOOLEAN
    BY <1>1
  <2>6. CASE bus.missed
    BY <2>3, <2>4, <2>6
  <2>7. CASE ~bus.missed
    BY <2>3, <2>4, <2>7 DEF e
  <2> QED BY <2>5, <2>6, <2>7
<1>3. CASE ~ (Len(e) < BusRoom)
  <2>1. bus' = [events |-> Append(Tail(e), event), missed |-> TRUE]
    BY <1>3 DEF Emit
  <2>2. e # <<>>
    BY <1>1, <1>3
  <2>3. Tail(e) \in Seq({"started", "stopped"}) /\ Len(Tail(e)) = Len(e) - 1
    BY <1>1, <2>2
  <2> HIDE DEF e
  <2>4. Append(Tail(e), event) \in Seq({"started", "stopped"}) /\ Len(Append(Tail(e), event)) = Len(e)
    BY <1>1, <2>3
  <2> QED BY <1>1, <2>1, <2>4
<1> QED BY <1>2, <1>3

\* Nothing of the readers moves when the session announces itself.
LEMMA IngestQuietSteps ==
  ASSUME SInv, IngestCreate \/ IngestStarted \/ IngestReady \/ IngestConfig \/ IngestStopped \/ IngestDrop
  PROVE  SInv'
<1>1. WsShape /\ Session /\ BusInStep /\ UNCHANGED <<track, recorder, viewer, relay, chan, got>>
  BY DEF SInv, IngestCreate, IngestStarted, IngestReady, IngestConfig, IngestStopped, IngestDrop, ingestRest
<1>2. RelayInv' /\ \A p \in Pubs : Marked(track[p])' /\ RecordingInv(p)'
  <2>1. RelayInv'
    BY <1>1 DEF SInv, RelayInv, ReadFrom, Starts
  <2>2. ASSUME NEW p \in Pubs PROVE Marked(track[p])' /\ RecordingInv(p)'
    BY <1>1 DEF SInv, Marked, RecordingInv, Starts
  <2> QED BY <2>1, <2>2
<1> DEFINE e == bus.events
           f == bus'.events
<1>3. /\ bus \in [events : Seq({"started", "stopped"}), missed : BOOLEAN] /\ e \in Seq({"started", "stopped"})
      /\ Len(e) \in Nat
  BY <1>1 DEF WsShape
<1>4. /\ ingest \in [pub : Pubs \cup {0}, at : {"off", "created", "tracks", "loop", "dropping"},
                     config : BOOLEAN, open : BOOLEAN]
      /\ origin = (IF ingest.at = "off" THEN NoOrigin ELSE ingest.pub)
      /\ ingest.at # "off" => ingest.pub \in Pubs
      /\ ingest.at # "off" /\ ingest.open => Len(track[ingest.pub]) > 0
  BY <1>1 DEF Session
<1>5. Session'
  <2>1. CASE IngestCreate
    <3>1. ingest' = [pub |-> ingest.pub + 1, at |-> "created", config |-> FALSE, open |-> FALSE]
          /\ origin' = ingest.pub + 1 /\ ingest.pub + 1 \in Pubs
      BY <2>1 DEF IngestCreate, Off
    <3> QED BY <3>1 DEF Session
  <2>2. CASE IngestStarted
    <3>1. ingest' = [ingest EXCEPT !.at = "tracks"] /\ UNCHANGED <<origin, track>> /\ ingest.at = "created"
      BY <2>2 DEF IngestStarted
    <3> QED BY <1>4, <3>1 DEF Session
  <2>3. CASE IngestReady
    <3>1. ingest' = [ingest EXCEPT !.at = "loop"] /\ UNCHANGED <<origin, track>> /\ ingest.at = "tracks"
      BY <2>3 DEF IngestReady
    <3> QED BY <1>4, <3>1 DEF Session
  <2>4. CASE IngestConfig
    <3>1. ingest' = [ingest EXCEPT !.config = TRUE] /\ UNCHANGED <<origin, track>> /\ ingest.at = "loop"
      BY <2>4 DEF IngestConfig, Ingesting
    <3> QED BY <1>4, <3>1 DEF Session
  <2>5. CASE IngestStopped
    <3>1. ingest' = [ingest EXCEPT !.at = "dropping", !.open = FALSE] /\ UNCHANGED <<origin, track>>
          /\ ingest.at = "loop"
      BY <2>5 DEF IngestStopped
    <3> QED BY <1>4, <3>1 DEF Session
  <2>6. CASE IngestDrop
    <3>1. ingest' = [pub |-> ingest.pub, at |-> "off", config |-> FALSE, open |-> FALSE] /\ origin' = NoOrigin
      BY <2>6 DEF IngestDrop, Off
    <3> QED BY <1>4, <3>1 DEF Session
  <2> QED BY <2>1, <2>2, <2>3, <2>4, <2>5, <2>6
<1>6. /\ bus' \in [events : Seq({"started", "stopped"}), missed : BOOLEAN] /\ Len(bus'.events) <= BusRoom
  <2>1. CASE IngestStarted \/ IngestStopped
    BY <1>1, <2>1, EmitStep DEF IngestStarted, IngestStopped
  <2>2. CASE IngestCreate \/ IngestReady \/ IngestConfig
    BY <1>1, <2>2 DEF IngestCreate, IngestReady, IngestConfig, WsShape
  <2>3. CASE IngestDrop
    <3>1. bus' = [bus EXCEPT !.missed = @ \/ ingest.at = "tracks"]
      BY <2>3 DEF IngestDrop
    <3>2. (bus.missed \/ ingest.at = "tracks") \in BOOLEAN
      BY <1>3
    <3>3. bus' = [bus EXCEPT !.missed = (bus.missed \/ ingest.at = "tracks")] /\ Len(bus.events) <= BusRoom
      BY <1>1, <3>1 DEF WsShape
    <3> HIDE DEF e, f
    <3> QED BY <1>3, <3>2, <3>3
  <2> QED BY <2>1, <2>2, <2>3
<1>7. WsShape'
  BY <1>1, <1>6 DEF WsShape
<1>8. BusInStep'
  <2>1. CASE IngestStarted \/ IngestStopped
    <3>1. PICK event \in {"started", "stopped"} :
            /\ Emit(event) /\ (event = "started" <=> Announced') /\ (event = "started" <=> ~Announced)
      <4>1. CASE IngestStarted
        <5>1. Emit("started") /\ ingest.at = "created" /\ ingest'.at = "tracks"
          BY <1>4, <4>1 DEF IngestStarted
        <5> QED BY <5>1 DEF Announced
      <4>2. CASE IngestStopped
        <5>1. Emit("stopped") /\ ingest.at = "loop" /\ ingest'.at = "dropping"
          BY <1>4, <4>2 DEF IngestStopped
        <5> QED BY <5>1 DEF Announced
      <4> QED BY <2>1, <4>1, <4>2
    <3>2. bus'.missed \/ (~bus.missed /\ f = Append(e, event))
      BY <1>1, <3>1, EmitStep
    <3>3. CASE bus'.missed
      BY <3>3 DEF BusInStep
    <3>4. CASE ~bus.missed /\ f = Append(e, event)
      <4>1. /\ \A i \in 1..Len(e) - 1 : e[i] # e[i + 1]
            /\ e # <<>> => (e[Len(e)] = "started" <=> Announced)
            /\ e # <<>> /\ e[1] = "started" => ~recorder.active
            /\ e = <<>> /\ ~Announced => ~recorder.active
        BY <1>1, <3>4 DEF BusInStep
      <4>2. /\ Len(f) = Len(e) + 1 /\ f[Len(f)] = event /\ f # <<>>
            /\ \A i \in 1..Len(e) : f[i] = e[i]
            /\ \A i \in 1..Len(e) : e[i] \in {"started", "stopped"}
        BY <1>3, <3>4
      <4>3. e = <<>> <=> Len(e) = 0
        BY <1>3
      <4> HIDE DEF e, f
      <4>4. \A i \in 1..Len(f) - 1 : f[i] # f[i + 1]
        <5> SUFFICES ASSUME NEW i \in 1..Len(f) - 1 PROVE f[i] # f[i + 1]
          OBVIOUS
        <5>1. i \in 1..Len(e) /\ f[i] = e[i]
          BY <1>3, <4>2
        <5>2. CASE i = Len(e)
          <6>1. f[i + 1] = event /\ e # <<>>
            BY <1>3, <4>2, <4>3, <5>1, <5>2
          <6> QED BY <3>1, <4>1, <4>2, <5>1, <5>2, <6>1
        <5>3. CASE i # Len(e)
          <6>1. i \in 1..Len(e) - 1 /\ i + 1 \in 1..Len(e)
            BY <1>3, <5>1, <5>3
          <6> QED BY <4>1, <4>2, <5>1, <6>1
        <5> QED BY <5>2, <5>3
      <4>5. f[1] = "started" => ~recorder.active
        <5>1. CASE e = <<>>
          <6>1. f[1] = event
            BY <4>2, <4>3, <5>1
          <6> QED BY <3>1, <4>1, <5>1, <6>1
        <5>2. CASE e # <<>>
          <6>1. f[1] = e[1]
            BY <1>3, <4>2, <4>3, <5>2
          <6> QED BY <4>1, <5>2, <6>1
        <5> QED BY <5>1, <5>2
      <4> QED BY <1>1, <3>1, <4>2, <4>4, <4>5 DEF BusInStep, f
    <3> QED BY <3>2, <3>3, <3>4
  <2>2. CASE IngestCreate \/ IngestReady \/ IngestConfig
    <3>1. UNCHANGED bus /\ (Announced' <=> Announced) /\ (Announced => UNCHANGED origin)
      <4>1. CASE IngestCreate
        BY <4>1 DEF IngestCreate, Announced, Off
      <4>2. CASE IngestReady
        BY <1>4, <4>2 DEF IngestReady, Announced
      <4>3. CASE IngestConfig
        BY <1>4, <4>3 DEF IngestConfig, Announced
      <4> QED BY <2>2, <4>1, <4>2, <4>3
    <3> QED BY <1>1, <3>1 DEF BusInStep
  <2>3. CASE IngestDrop
    <3>1. bus' = [bus EXCEPT !.missed = @ \/ ingest.at = "tracks"] /\ ingest.at \in {"dropping", "tracks"}
          /\ ingest'.at = "off"
      BY <2>3 DEF IngestDrop, Off
    <3>2. bus'.events = bus.events /\ bus'.missed = (bus.missed \/ ingest.at = "tracks")
      BY <1>3, <3>1
    <3>3. CASE ingest.at = "tracks"
      BY <3>2, <3>3 DEF BusInStep
    <3>4. CASE ingest.at = "dropping"
      <4>1. ~Announced /\ ~Announced'
        BY <3>1, <3>4 DEF Announced
      <4>2. CASE bus.missed
        BY <3>2, <4>2 DEF BusInStep
      <4>3. CASE ~bus.missed
        BY <1>1, <3>2, <4>1, <4>3 DEF BusInStep
      <4> QED BY <4>2, <4>3
    <3> QED BY <3>1, <3>3, <3>4
  <2> QED BY <2>1, <2>2, <2>3
<1> QED BY <1>2, <1>5, <1>7, <1>8 DEF SInv
\* A keyframe begins a group with the init segment, and an inter frame goes on
\* with it.
LEMMA IngestFrameSteps == ASSUME SInv, IngestKeyframe \/ IngestDelta PROVE SInv'
<1> DEFINE p == ingest.pub
           t == track[p]
           u == track'[p]
           g == LastGroup(p)
<1>1. WsShape /\ Session /\ BusInStep /\ UNCHANGED <<origin, bus, recorder, viewer, relay, chan, got>>
  BY DEF SInv, IngestKeyframe, IngestDelta, ingestRest
<1>2. p \in Pubs /\ ingest.at = "loop" /\ Len(t) + 2 <= MaxFrames /\ t \in Seq(Frames) /\ Marked(t)
      /\ Len(t) \in Nat
  BY <1>1 DEF SInv, IngestKeyframe, IngestDelta, Ingesting, Session, WsShape
<1>3. g \in Nat /\ (t # <<>> => g = t[Len(t)].group)
  <2>1. CASE t = <<>>
    BY <2>1 DEF LastGroup
  <2>2. CASE t # <<>>
    <3>1. Len(t) \in 1..Len(t)
      BY <1>2, <2>2
    <3>2. t[Len(t)] \in Frames
      BY <1>2, <3>1
    <3> QED BY <2>2, <3>2 DEF LastGroup, Frames
  <2> QED BY <2>1, <2>2
<1>4. /\ track' \in [Pubs -> Seq(Frames)] /\ \A q \in Pubs : q # p => track'[q] = track[q]
      /\ Longer(t, u) /\ Len(u) <= Len(t) + 2 /\ Len(u) > Len(t) /\ Marked(u) /\ Len(u) \in Nat
  <2>1. CASE IngestKeyframe
    <3> DEFINE a == Frame(g + 1, "init")
               b == Frame(g + 1, "media")
    <3>1. a \in Frames /\ b \in Frames /\ a.kind = "init" /\ b.kind = "media" /\ a.group = g + 1 /\ b.group = g + 1
      BY <1>3 DEF Frame, Frames
    <3>2. track' = [track EXCEPT ![p] = t \o <<a, b>>]
      BY <2>1 DEF IngestKeyframe, Wrote
    <3> HIDE DEF g, a, b
    <3>3. u = t \o <<a, b>> /\ \A q \in Pubs : q # p => track'[q] = track[q]
      BY <1>1, <1>2, <3>2 DEF WsShape
    <3>4. t \o <<a, b>> \in Seq(Frames)
      BY <1>2, <3>1
    <3>5. track' \in [Pubs -> Seq(Frames)]
      BY <1>1, <1>2, <3>2, <3>4 DEF WsShape
    <3>6. /\ Len(u) = Len(t) + 2 /\ u[Len(t) + 1] = a /\ u[Len(t) + 2] = b
          /\ \A i \in 1..Len(t) : u[i] = t[i]
      BY <1>2, <3>1, <3>3
    <3>7. t # <<>> <=> Len(t) > 0
      BY <1>2
    <3> HIDE DEF t, u
    <3>8. Marked(u)
      <4> SUFFICES ASSUME NEW i \in 1..Len(u)
                   PROVE  u[i].kind = "init" <=> (i = 1 \/ u[i - 1].group # u[i].group)
        BY DEF Marked
      <4>1. CASE i \in 1..Len(t)
        <5>1. u[i] = t[i] /\ (i # 1 => i - 1 \in 1..Len(t) /\ u[i - 1] = t[i - 1])
          BY <1>2, <3>6, <4>1
        <5>2. t[i].kind = "init" <=> (i = 1 \/ t[i - 1].group # t[i].group)
          BY <1>2, <4>1 DEF Marked
        <5> QED BY <5>1, <5>2
      <4>2. CASE i = Len(t) + 1
        <5>1. u[i] = a
          BY <3>6, <4>2
        <5>2. CASE Len(t) = 0
          BY <3>1, <4>2, <5>1, <5>2
        <5>3. CASE Len(t) > 0
          <6>1. i - 1 = Len(t) /\ Len(t) \in 1..Len(t)
            BY <1>2, <4>2, <5>3
          <6>2. u[i - 1] = t[Len(t)]
            BY <3>6, <6>1
          <6>3. u[i - 1].group = g
            BY <1>3, <3>7, <5>3, <6>2
          <6> QED BY <1>3, <3>1, <5>1, <6>3
        <5> QED BY <1>2, <5>2, <5>3
      <4>3. CASE i = Len(t) + 2
        <5>1. i - 1 = Len(t) + 1 /\ i # 1
          BY <1>2, <4>3
        <5>2. u[i] = b /\ u[i - 1] = a
          BY <3>6, <4>3, <5>1
        <5> QED BY <3>1, <5>1, <5>2
      <4> QED BY <1>2, <3>6, <4>1, <4>2, <4>3
    <3>9. Longer(t, u) /\ Len(u) <= Len(t) + 2 /\ Len(u) > Len(t) /\ Len(u) \in Nat
      BY <1>2, <3>6 DEF Longer
    <3> QED BY <3>3, <3>5, <3>8, <3>9
  <2>2. CASE IngestDelta
    <3> DEFINE b == Frame(g, "media")
    <3>1. b \in Frames /\ b.kind = "media" /\ b.group = g
      BY <1>3 DEF Frame, Frames
    <3>2. track' = [track EXCEPT ![p] = t \o <<b>>] /\ ingest.open
      BY <2>2 DEF IngestDelta, Wrote
    <3>3. Len(t) > 0
      BY <1>1, <1>2, <3>2 DEF Session
    <3> HIDE DEF g, b
    <3>4. u = t \o <<b>> /\ \A q \in Pubs : q # p => track'[q] = track[q]
      BY <1>1, <1>2, <3>2 DEF WsShape
    <3>5. t \o <<b>> \in Seq(Frames)
      BY <1>2, <3>1
    <3>6. track' \in [Pubs -> Seq(Frames)]
      BY <1>1, <1>2, <3>2, <3>5 DEF WsShape
    <3>7. Len(u) = Len(t) + 1 /\ u[Len(t) + 1] = b /\ \A i \in 1..Len(t) : u[i] = t[i]
      BY <1>2, <3>1, <3>4
    <3>8. t # <<>>
      BY <3>3
    <3> HIDE DEF t, u
    <3>9. Marked(u)
      <4> SUFFICES ASSUME NEW i \in 1..Len(u)
                   PROVE  u[i].kind = "init" <=> (i = 1 \/ u[i - 1].group # u[i].group)
        BY DEF Marked
      <4>1. CASE i \in 1..Len(t)
        <5>1. u[i] = t[i] /\ (i # 1 => i - 1 \in 1..Len(t) /\ u[i - 1] = t[i - 1])
          BY <1>2, <3>7, <4>1
        <5>2. t[i].kind = "init" <=> (i = 1 \/ t[i - 1].group # t[i].group)
          BY <1>2, <4>1 DEF Marked
        <5> QED BY <5>1, <5>2
      <4>2. CASE i = Len(t) + 1
        <5>1. u[i] = b /\ i - 1 = Len(t) /\ i # 1 /\ Len(t) \in 1..Len(t)
          BY <1>2, <3>3, <3>7, <4>2
        <5>2. u[i - 1].group = g
          BY <1>3, <3>7, <3>8, <5>1
        <5> QED BY <3>1, <5>1, <5>2
      <4> QED BY <1>2, <3>7, <4>1, <4>2
    <3>10. Longer(t, u) /\ Len(u) <= Len(t) + 2 /\ Len(u) > Len(t) /\ Len(u) \in Nat
      BY <1>2, <3>7 DEF Longer
    <3> QED BY <3>4, <3>6, <3>9, <3>10
  <2> QED BY <2>1, <2>2
<1>5. /\ ingest' \in [pub : Pubs \cup {0}, at : {"off", "created", "tracks", "loop", "dropping"},
                      config : BOOLEAN, open : BOOLEAN]
      /\ ingest'.pub = p /\ ingest'.at = "loop"
  <2>1. ingest' = ingest \/ ingest' = [ingest EXCEPT !.open = TRUE]
    BY DEF IngestKeyframe, IngestDelta
  <2> QED BY <1>1, <1>2, <2>1 DEF Session
<1> HIDE DEF p, t, u, g
<1>6. \A q \in Pubs : track[q] \in Seq(Frames) /\ Len(track[q]) \in Nat /\ Len(track[q]) <= MaxFrames
  BY <1>1 DEF WsShape
<1>7. \A q \in Pubs : Longer(track[q], track'[q])
  <2>1. \A q \in Pubs : q # p => Longer(track[q], track'[q])
    BY <1>4, <1>6 DEF Longer
  <2> QED BY <1>4, <2>1 DEF t, u
<1>8. RelayInv' /\ \A q \in Pubs : RecordingInv(q)'
  BY <1>1, <1>4, <1>7, ReadersKept
<1>9. ASSUME NEW q \in Pubs PROVE Marked(track'[q]) /\ Len(track'[q]) <= MaxFrames
  <2>1. CASE q = p
    <3>1. Len(u) <= MaxFrames
      BY <1>2, <1>4, WsAssumption
    <3> QED BY <1>4, <2>1, <3>1 DEF u
  <2>2. CASE q # p
    BY <1>4, <1>6, <2>2 DEF SInv
  <2> QED BY <2>1, <2>2
<1>10. \A q \in Pubs : Marked(track[q])'
  BY <1>9 DEF Marked
<1>11. WsShape'
  BY <1>1, <1>4, <1>9 DEF WsShape
<1>12. Session'
  <2>1. origin = ingest.pub
    BY <1>1, <1>2 DEF Session
  <2>2. Len(track'[p]) > 0
    BY <1>2, <1>4 DEF u
  <2> QED BY <1>1, <1>2, <1>5, <2>1, <2>2 DEF Session, p
<1>13. BusInStep'
  <2>1. Announced /\ Announced'
    BY <1>2, <1>5 DEF Announced
  <2> QED BY <1>1, <2>1 DEF BusInStep
<1> QED BY <1>8, <1>10, <1>11, <1>12, <1>13 DEF SInv

\* The recorder's loop takes an event from the bus.
LEMMA RecordEventSteps == ASSUME SInv, RecordStarted \/ RecordStopped PROVE SInv'
<1> DEFINE e == bus.events
           f == bus'.events
<1>1. WsShape /\ Session /\ BusInStep /\ UNCHANGED <<origin, track, ingest, viewer, relay, chan, got>>
  BY DEF SInv, RecordStarted, RecordStopped, recordRest
<1>2. /\ bus \in [events : Seq({"started", "stopped"}), missed : BOOLEAN] /\ e \in Seq({"started", "stopped"})
      /\ Len(e) \in Nat /\ Len(e) <= BusRoom /\ e # <<>> /\ bus' = [bus EXCEPT !.events = Tail(e)]
  BY <1>1 DEF RecordStarted, RecordStopped, NextEvent, Received, WsShape
<1>3. /\ f = Tail(e) /\ bus'.missed = bus.missed /\ Tail(e) \in Seq({"started", "stopped"})
      /\ Len(Tail(e)) = Len(e) - 1
      /\ bus' \in [events : Seq({"started", "stopped"}), missed : BOOLEAN]
  <2> DEFINE W == {"started", "stopped"}
  <2>1. bus \in [events : Seq(W), missed : BOOLEAN] /\ e \in Seq(W) /\ e # <<>>
        /\ bus' = [bus EXCEPT !.events = Tail(e)]
    BY <1>2
  <2>2. f = Tail(e) /\ bus'.missed = bus.missed
    <3> HIDE DEF W
    <3> QED BY <2>1
  <2>3. Tail(e) \in Seq(W) /\ Len(Tail(e)) = Len(e) - 1
    <3> HIDE DEF W, e
    <3> QED BY <2>1
  <2>4. bus' \in [events : Seq(W), missed : BOOLEAN]
    <3> HIDE DEF W
    <3> QED BY <2>1, <2>3
  <2> QED BY <2>2, <2>3, <2>4
<1>4. /\ Len(f) = Len(e) - 1 /\ Len(e) >= 1 /\ Head(e) = e[1]
      /\ \A i \in 1..Len(e) - 1 : f[i] = e[i + 1]
      /\ f = <<>> <=> Len(e) = 1
      /\ \A i \in 1..Len(e) : e[i] \in {"started", "stopped"}
  <2>1. e \in Seq({"started", "stopped"}) /\ e # <<>> /\ Len(e) \in Nat /\ f = Tail(e)
    BY <1>2, <1>3
  <2> HIDE DEF e, f
  <2>2. Len(f) = Len(e) - 1 /\ Len(e) >= 1 /\ Head(e) = e[1] /\ f \in Seq({"started", "stopped"})
    BY <2>1
  <2>3. \A i \in 1..Len(e) - 1 : f[i] = e[i + 1]
    BY <2>1
  <2>4. f = <<>> <=> Len(e) = 1
    <3>1. f \in Seq({"started", "stopped"})
      BY <2>2
    <3>2. f = <<>> <=> Len(f) = 0
      BY <3>1
    <3> QED BY <2>1, <2>2, <3>2
  <2>5. \A i \in 1..Len(e) : e[i] \in {"started", "stopped"}
    BY <2>1
  <2> QED BY <2>2, <2>3, <2>4, <2>5
<1>5. Len(bus'.events) <= BusRoom
  <2>1. BusRoom \in Nat
    BY WsAssumption
  <2> HIDE DEF e
  <2> QED BY <1>2, <1>3, <2>1
<1>6. /\ recorder \in [active : BOOLEAN, of : [Pubs -> Recordings]]
      /\ recorder' \in [active : BOOLEAN, of : [Pubs -> Recordings]]
      /\ \A q \in Pubs : recorder'.of[q] = recorder.of[q] \/ recorder'.of[q] = [NoRecording EXCEPT !.at = "open"]
  <2>1. recorder \in [active : BOOLEAN, of : [Pubs -> Recordings]]
    BY <1>1 DEF WsShape
  <2>2. [NoRecording EXCEPT !.at = "open"] \in Recordings
    <3>1. 0 \in 0..MaxFrames
      BY WsAssumption
    <3> QED BY <3>1 DEF NoRecording, Recordings
  <2>3. CASE recorder' = recorder
    BY <2>1, <2>3
  <2>4. CASE recorder' = [recorder EXCEPT !.active = FALSE]
    BY <2>1, <2>4
  <2>5. CASE /\ origin # NoOrigin
             /\ recorder' = [active |-> TRUE, of |->
                  [recorder.of EXCEPT ![origin] = [NoRecording EXCEPT !.at = "open"]]]
    <3>1. origin \in Pubs
      BY <1>1, <2>5 DEF Session
    <3> QED BY <2>1, <2>2, <2>5, <3>1
  <2> QED BY <2>1, <2>3, <2>4, <2>5 DEF RecordStarted, RecordStopped
<1> HIDE DEF e, f
<1>7. WsShape'
  BY <1>1, <1>3, <1>5, <1>6 DEF WsShape
<1>8. Session' /\ RelayInv'
  BY <1>1 DEF SInv, Session, RelayInv, ReadFrom, Starts
<1>9. ASSUME NEW q \in Pubs PROVE Marked(track[q])' /\ RecordingInv(q)'
  <2>1. Marked(track[q])'
    BY <1>1 DEF SInv, Marked
  <2>2. CASE recorder'.of[q] = recorder.of[q]
    BY <1>1, <2>1, <2>2 DEF SInv, RecordingInv, Starts
  <2>3. CASE recorder'.of[q] = [NoRecording EXCEPT !.at = "open"]
    <3>1. recorder'.of[q].pos = 0 /\ recorder'.of[q].segments = 0 /\ recorder'.of[q].init = FALSE
      BY <2>3 DEF NoRecording
    <3>2. track[q] \in Seq(Frames) /\ Len(track[q]) \in Nat
      BY <1>1 DEF WsShape
    <3>3. 0 \in Starts(q)'
      BY DEF Starts
    <3> QED BY <1>1, <2>1, <3>1, <3>2, <3>3 DEF RecordingInv
  <2> QED BY <1>6, <2>2, <2>3
<1>10. BusInStep'
  <2>1. CASE bus.missed
    BY <1>3, <2>1 DEF BusInStep
  <2>2. CASE ~bus.missed
    <3>1. /\ \A i \in 1..Len(e) - 1 : e[i] # e[i + 1]
          /\ (e[Len(e)] = "started" <=> Announced)
          /\ e[1] = "started" => ~recorder.active
      BY <1>1, <1>2, <2>2 DEF BusInStep, e
    <3>2. \A i \in 1..Len(f) - 1 : f[i] # f[i + 1]
      <4>1. \A i \in 1..Len(f) - 1 : /\ i \in 1..Len(e) - 1 /\ i + 1 \in 1..Len(e) - 1
                                     /\ f[i] = e[i + 1] /\ f[i + 1] = e[(i + 1) + 1]
        BY <1>2, <1>4
      <4> QED BY <3>1, <4>1
    <3>3. f # <<>> => f[Len(f)] = e[Len(e)]
      <4> SUFFICES ASSUME f # <<>> PROVE f[Len(f)] = e[Len(e)]
        OBVIOUS
      <4>1. Len(e) - 1 \in 1..Len(e) - 1 /\ (Len(e) - 1) + 1 = Len(e)
        BY <1>2, <1>4
      <4> QED BY <1>4, <4>1
    <3>4. Announced' <=> Announced
      BY <1>1 DEF Announced
    <3>5. CASE RecordStopped
      <4>1. recorder'.active = FALSE /\ e[1] = "stopped"
        BY <1>4, <1>6, <3>5 DEF RecordStopped, NextEvent, e
      <4>2. f = <<>> => ~Announced
        <5>1. f = <<>> => Len(e) = 1
          BY <1>4
        <5> QED BY <3>1, <4>1, <5>1
      <4> QED BY <3>1, <3>2, <3>3, <3>4, <4>1, <4>2 DEF BusInStep, f
    <3>6. CASE RecordStarted
      <4>1. e[1] = "started"
        BY <1>4, <3>6 DEF RecordStarted, NextEvent, e
      <4>2. ~recorder.active
        BY <3>1, <4>1
      <4>3. f # <<>> => f[1] # "started"
        <5> SUFFICES ASSUME f # <<>> PROVE f[1] # "started"
          OBVIOUS
        <5>1. Len(e) \in Nat /\ Len(e) >= 1 /\ Len(e) # 1
          BY <1>2, <1>4
        <5>2. 1 \in 1..Len(e) - 1
          <6> DEFINE n == Len(e)
          <6>1. n \in Nat /\ n >= 1 /\ n # 1
            BY <5>1
          <6> HIDE DEF n
          <6>2. 1 \in 1..n - 1
            BY <6>1
          <6> QED BY <6>2 DEF n
        <5>3. f[1] = e[1 + 1]
          BY <1>4, <5>2
        <5> QED BY <3>1, <4>1, <5>2, <5>3
      <4>4. ASSUME f = <<>> PROVE Announced /\ recorder'.of[origin'].at \in {"open", "run", "early"}
        <5>1. Announced
          BY <1>4, <3>1, <4>1, <4>4
        <5>2. origin \in Pubs /\ origin # NoOrigin
          BY <1>1, <5>1, WsAssumption DEF Session, Announced, NoOrigin
        <5>3. recorder' = [active |-> TRUE, of |->
                [recorder.of EXCEPT ![origin] = [NoRecording EXCEPT !.at = "open"]]]
          BY <3>6, <4>2, <5>2 DEF RecordStarted
        <5>4. recorder'.of[origin] = [NoRecording EXCEPT !.at = "open"]
          BY <1>6, <5>2, <5>3
        <5> QED BY <1>1, <5>1, <5>4 DEF NoRecording
      <4> QED BY <3>1, <3>2, <3>3, <3>4, <4>3, <4>4 DEF BusInStep, f
    <3> QED BY <3>5, <3>6
  <2> QED BY <2>1, <2>2
<1> QED BY <1>7, <1>8, <1>9, <1>10 DEF SInv
\* A recording's own task: it subscribes or is refused, writes a file, ends.
LEMMA RecordTaskSteps ==
  ASSUME SInv, NEW p \in Pubs, RecordSubscribe(p) \/ RecordRefused(p) \/ RecordFrame(p) \/ RecordEnd(p)
  PROVE  SInv'
<1> DEFINE r == recorder.of[p]
           t == track[p]
           s == recorder'.of[p]
<1>1. WsShape /\ BusInStep /\ UNCHANGED <<bus, origin, track, ingest, viewer, relay, chan, got>>
  BY DEF SInv, RecordSubscribe, RecordRefused, RecordFrame, RecordEnd, recordRest
<1>2. /\ recorder \in [active : BOOLEAN, of : [Pubs -> Recordings]] /\ r \in Recordings
      /\ t \in Seq(Frames) /\ Len(t) \in Nat /\ Len(t) <= MaxFrames /\ MaxFrames \in Nat /\ RecordingInv(p)
      /\ Marked(t)
  BY <1>1, WsAssumption DEF SInv, WsShape
<1>3. r.pos \in Nat /\ r.segments \in Nat /\ r.init \in BOOLEAN /\ r.pos \in 0..MaxFrames
  BY <1>2 DEF Recordings
<1>4. PICK x : recorder' = [recorder EXCEPT !.of[p] = x]
  <2>1. CASE RecordSubscribe(p)
    BY <2>1 DEF RecordSubscribe
  <2>2. CASE RecordRefused(p)
    BY <1>2, <2>2 DEF RecordRefused
  <2>3. CASE RecordFrame(p)
    <3>1. \/ recorder' = [recorder EXCEPT !.of[p].pos = @ + 1, !.of[p].init = TRUE]
          \/ recorder' = [recorder EXCEPT !.of[p].pos = @ + 1, !.of[p].segments = @ + 1]
      BY <2>3 DEF RecordFrame
    <3>2. CASE recorder' = [recorder EXCEPT !.of[p].pos = @ + 1, !.of[p].init = TRUE]
      <4>1. recorder' = [recorder EXCEPT !.of[p] = [r EXCEPT !.pos = @ + 1, !.init = TRUE]]
        BY <1>2, <3>2 DEF Recordings
      <4> QED BY <4>1
    <3>3. CASE recorder' = [recorder EXCEPT !.of[p].pos = @ + 1, !.of[p].segments = @ + 1]
      <4>1. recorder' = [recorder EXCEPT !.of[p] = [r EXCEPT !.pos = @ + 1, !.segments = @ + 1]]
        BY <1>2, <3>3 DEF Recordings
      <4> QED BY <4>1
    <3> QED BY <3>1, <3>2, <3>3
  <2>4. CASE RecordEnd(p)
    BY <1>2, <2>4 DEF RecordEnd
  <2> QED BY <2>1, <2>2, <2>3, <2>4
<1>5. /\ recorder'.active = recorder.active /\ s = x
      /\ \A q \in Pubs : q # p => recorder'.of[q] = recorder.of[q]
  BY <1>2, <1>4
<1>6. /\ s \in Recordings /\ s.pos <= Len(t) /\ s.segments <= s.pos
      /\ ~s.init => s.segments = 0 /\ s.pos \in Starts(p)
      /\ p = origin /\ r.at \in {"open", "run", "early"} => s.at \in {"open", "run", "early"}
  <2>1. r.pos <= Len(t) /\ r.segments <= r.pos /\ (~r.init => r.segments = 0 /\ r.pos \in Starts(p))
    BY <1>2 DEF RecordingInv
  <2>2. CASE RecordSubscribe(p)
    <3>1. PICK n \in Starts(p) : recorder' = [recorder EXCEPT !.of[p] = [NoRecording EXCEPT !.at = "run", !.pos = n]]
      BY <2>2 DEF RecordSubscribe
    <3>2. s = [at |-> "run", pos |-> n, init |-> FALSE, segments |-> 0]
      BY <1>2, <3>1 DEF NoRecording
    <3>3. n \in Nat /\ n <= Len(t) /\ n \in 0..MaxFrames /\ 0 \in 0..MaxFrames
      <4>1. n = 0 \/ n \in 1..Len(t) - 1
        BY <3>1 DEF Starts
      <4> QED BY <1>2, <4>1
    <3>4. s \in Recordings
      BY <3>2, <3>3 DEF Recordings
    <3>5. s.pos = n /\ s.segments = 0 /\ s.init = FALSE /\ s.at = "run" /\ 0 <= n
      BY <3>2, <3>3
    <3> QED BY <3>1, <3>3, <3>4, <3>5
  <2>3. CASE RecordRefused(p)
    <3>1. PICK why \in {"early", "late"} : s = [r EXCEPT !.at = why] /\ (why = "late" => origin # p)
      BY <1>2, <2>3 DEF RecordRefused, Ended
    <3> QED BY <1>2, <2>1, <3>1 DEF Recordings
  <2>4. CASE RecordEnd(p)
    <3>1. s = [r EXCEPT !.at = "done"] /\ origin # p
      BY <1>2, <2>4 DEF RecordEnd, Ended
    <3> QED BY <1>2, <2>1, <3>1 DEF Recordings
  <2>5. CASE RecordFrame(p)
    <3>1. r.pos < Len(t) /\ r.at = "run"
      BY <2>5 DEF RecordFrame, More
    <3>2. r.pos + 1 \in 0..MaxFrames /\ r.pos + 1 <= Len(t) /\ r.pos + 1 \in 1..Len(t)
      BY <1>2, <1>3, <3>1
    <3>3. CASE ~r.init /\ t[r.pos + 1].kind = "init"
      <4>1. s = [r EXCEPT !.pos = @ + 1, !.init = TRUE]
        BY <1>2, <2>5, <3>3 DEF RecordFrame
      <4>2. s.pos = r.pos + 1 /\ s.init = TRUE /\ s.segments = r.segments /\ s.at = r.at /\ s \in Recordings
        BY <1>2, <3>2, <4>1 DEF Recordings
      <4> QED BY <1>3, <2>1, <3>1, <3>2, <4>2
    <3>4. CASE ~ (~r.init /\ t[r.pos + 1].kind = "init")
      <4>1. s = [r EXCEPT !.pos = @ + 1, !.segments = @ + 1]
        BY <1>2, <2>5, <3>4 DEF RecordFrame
      <4>2. r.init
        <5> SUFFICES ASSUME ~r.init PROVE FALSE
          BY <1>3
        <5>1. r.pos \in Starts(p)
          BY <2>1
        <5>2. t[r.pos + 1].kind = "init" <=> (r.pos + 1 = 1 \/ t[(r.pos + 1) - 1].group # t[r.pos + 1].group)
          BY <1>2, <3>2 DEF Marked
        <5>3. (r.pos + 1) - 1 = r.pos
          BY <1>3
        <5>4. r.pos = 0 \/ t[r.pos].group # t[r.pos + 1].group
          BY <5>1 DEF Starts
        <5>5. r.pos = 0 => r.pos + 1 = 1
          BY <1>3
        <5> QED BY <3>4, <5>2, <5>3, <5>4, <5>5
      <4>3. r.segments + 1 \in 0..MaxFrames /\ r.segments + 1 <= r.pos + 1
        BY <1>2, <1>3, <2>1, <3>2
      <4>4. /\ s.pos = r.pos + 1 /\ s.init = r.init /\ s.segments = r.segments + 1 /\ s.at = r.at
            /\ s \in Recordings
        BY <1>2, <3>2, <4>1, <4>3 DEF Recordings
      <4> QED BY <3>1, <3>2, <4>2, <4>3, <4>4
    <3> QED BY <3>3, <3>4
  <2> QED BY <2>2, <2>3, <2>4, <2>5
<1>7. recorder' \in [active : BOOLEAN, of : [Pubs -> Recordings]]
  <2>1. x \in Recordings
    BY <1>5, <1>6
  <2> HIDE DEF r, s, t
  <2> QED BY <1>2, <1>4, <2>1
<1> HIDE DEF r, s, t
<1>8. WsShape'
  BY <1>1, <1>7 DEF WsShape
<1>9. Session' /\ RelayInv'
  <2>1. Session'
    BY <1>1 DEF SInv, Session
  <2>2. \A k \in Nat : ReadFrom(k)' <=> ReadFrom(k)
    BY <1>1 DEF ReadFrom, Starts
  <2>3. RelayInv'
    BY <1>1, <2>2 DEF SInv, RelayInv
  <2> QED BY <2>1, <2>3
<1>10. ASSUME NEW q \in Pubs PROVE Marked(track[q])' /\ RecordingInv(q)'
  <2>1. Marked(track[q])' /\ Starts(q)' = Starts(q)
    BY <1>1 DEF SInv, Marked, Starts
  <2>2. CASE q = p
    BY <1>1, <1>6, <2>1, <2>2 DEF RecordingInv, s, t
  <2>3. CASE q # p
    BY <1>1, <1>5, <2>1, <2>3 DEF SInv, RecordingInv
  <2> QED BY <2>2, <2>3
<1>11. BusInStep'
  <2>1. recorder.of[origin].at \in {"open", "run", "early"} /\ Announced
          => recorder'.of[origin].at \in {"open", "run", "early"}
    <3>1. Announced => origin \in Pubs
      BY DEF SInv, Session, Announced
    <3> QED BY <1>5, <1>6, <3>1 DEF r, s
  <2> QED BY <1>1, <1>5, <2>1 DEF BusInStep, Announced
<1> QED BY <1>8, <1>9, <1>10, <1>11 DEF SInv

\* The relay session and its task.
LEMMA RelaySteps == ASSUME SInv, Watching PROVE SInv'
<1> DEFINE t == track[viewer.pub]
<1>1. WsShape /\ RelayInv /\ UNCHANGED <<origin, track, ingest, bus, recorder>>
  BY DEF SInv, Watching, Relaying, RelayTask, RelayOpen, RelaySubscribe, RelayNoTracks, RelayLeave, RelayClose,
         ReadFrame, SendFrame, RelayDone, ToClient, Sent, SendFailed, ClientGone, relayRest
<1>2. Session' /\ BusInStep' /\ \A p \in Pubs : Marked(track[p])' /\ RecordingInv(p)'
  <2>1. Session' /\ BusInStep'
    BY <1>1 DEF SInv, Session, BusInStep, Announced
  <2>2. ASSUME NEW p \in Pubs PROVE Marked(track[p])' /\ RecordingInv(p)'
    BY <1>1 DEF SInv, Marked, RecordingInv, Starts
  <2> QED BY <2>1, <2>2
<1>3. /\ viewer \in [at : ViewerPlaces, pub : Pubs \cup {0},
                     peer : BOOLEAN, client : BOOLEAN]
      /\ relay \in [at : {"off", "read", "send", "done"}, pos : 0..MaxFrames]
      /\ chan \in Seq(Frames) /\ Len(chan) <= Room /\ got \in Seq(Frames)
      /\ Len(chan) \in Nat /\ Len(got) \in Nat /\ relay.pos \in Nat /\ MaxFrames \in Nat
      /\ Room \in Nat \ {0} /\ track \in [Pubs -> Seq(Frames)] /\ \A p \in Pubs : Len(track[p]) <= MaxFrames
  BY <1>1, WsAssumption DEF WsShape
<1>4. /\ viewer.at # "off" => viewer.pub \in Pubs
      /\ relay.at = "off" => got = <<>> /\ chan = <<>>
      /\ relay.at # "off" =>
           /\ viewer.at \in {"loop", "sending", "leaving", "closed"} /\ relay.pos <= Len(t)
           /\ \E s \in Nat : ReadFrom(s)
  BY <1>1 DEF RelayInv
<1>5. \A p \in Pubs : Starts(p)' = Starts(p)
  BY <1>1 DEF Starts
<1>6. viewer.pub \in Pubs => t \in Seq(Frames) /\ Len(t) \in Nat /\ Len(t) <= MaxFrames
  BY <1>3
\* Enough to show: the type of the four variables, and the positions.
<1>7. SUFFICES
        /\ viewer' \in [at : ViewerPlaces, pub : Pubs \cup {0},
                        peer : BOOLEAN, client : BOOLEAN]
        /\ relay' \in [at : {"off", "read", "send", "done"}, pos : 0..MaxFrames]
        /\ chan' \in Seq(Frames) /\ Len(chan') <= Room /\ got' \in Seq(Frames)
        /\ RelayInv'
  BY <1>1, <1>2 DEF SInv, WsShape
\* A step that moves the session on and leaves what it reads alone.
<1>8. ASSUME UNCHANGED <<relay, chan, got>>, viewer'.pub = viewer.pub,
             viewer.at # "off" <=> viewer'.at # "off",
             relay.at # "off" => viewer'.at \in {"loop", "sending", "leaving", "closed"},
             viewer'.at \in {"loop", "sending", "leaving"} => viewer.at \in {"loop", "sending", "leaving"} \/ relay.at = "off"
      PROVE  RelayInv'
  <2>1. CASE relay.at = "off"
    BY <1>4, <1>8, <2>1 DEF RelayInv
  <2>2. CASE relay.at # "off"
    <3>1. PICK s \in Nat : ReadFrom(s)
      BY <1>4, <2>2
    <3>2. viewer.pub \in Pubs
      BY <1>4, <2>2
    <3>3. ReadFrom(s)'
      BY <1>1, <1>5, <1>8, <2>2, <3>1, <3>2 DEF ReadFrom
    <3> QED BY <1>1, <1>4, <1>8, <2>2, <3>3 DEF RelayInv
  <2> QED BY <2>1, <2>2
<1>9. CASE RelayOpen
  <2>1. PICK peer \in BOOLEAN, w \in {"assigning", "joined"} :
           viewer' = [viewer EXCEPT !.at = w, !.pub = origin, !.peer = peer]
    BY <1>9 DEF RelayOpen
  <2>2. origin \in Pubs /\ viewer.at = "off" /\ UNCHANGED <<relay, chan, got>>
    BY <1>9 DEF SInv, Session, RelayOpen
  <2>3. relay.at = "off"
    BY <1>4, <2>2
  <2>4. /\ viewer' \in [at : ViewerPlaces, pub : Pubs \cup {0},
                        peer : BOOLEAN, client : BOOLEAN]
        /\ viewer'.pub \in Pubs
    BY <1>3, <2>1, <2>2 DEF ViewerPlaces
  <2>5. RelayInv'
    BY <1>4, <2>2, <2>3, <2>4 DEF RelayInv
  <2> QED BY <1>3, <2>2, <2>4, <2>5
<1>10. CASE RelaySubscribe
  <2>1. /\ viewer' = [viewer EXCEPT !.at = "loop"] /\ viewer.at = "joined" /\ UNCHANGED <<chan, got>>
    BY <1>10 DEF RelaySubscribe
  <2>2. viewer.pub \in Pubs /\ relay.at = "off" /\ got = <<>> /\ chan = <<>>
    BY <1>4, <2>1
  <2>3. PICK n \in Starts(viewer.pub) : relay' = [at |-> "read", pos |-> n]
    BY <1>10 DEF RelaySubscribe
  <2>4. n \in Nat /\ n <= Len(t)
    <3>1. n = 0 \/ n \in 1..Len(t) - 1
      BY <2>3 DEF Starts
    <3> QED BY <1>6, <2>2, <3>1
  <2>5. n \in 0..MaxFrames
    BY <1>3, <1>6, <2>2, <2>4
  <2>6. Len(got) = 0 /\ Len(chan) = 0
    BY <2>2
  <2>7. /\ viewer' \in [at : ViewerPlaces, pub : Pubs \cup {0},
                        peer : BOOLEAN, client : BOOLEAN]
        /\ viewer'.pub = viewer.pub /\ viewer'.at = "loop"
    BY <1>3, <2>1 DEF ViewerPlaces
  <2>8. relay'.at = "read" /\ relay'.pos = n
    BY <2>3
  <2> HIDE DEF t
  <2>9. n + 0 = n /\ n + 0 + 0 = n
    BY <2>4
  <2>10. ReadFrom(n)'
    BY <1>1, <1>5, <2>1, <2>2, <2>3, <2>4, <2>6, <2>7, <2>8, <2>9 DEF ReadFrom, t
  <2>11. RelayInv'
    BY <1>1, <2>2, <2>4, <2>7, <2>8, <2>10 DEF RelayInv, t
  <2> QED BY <1>3, <2>1, <2>3, <2>5, <2>7, <2>11
<1>11. CASE RelayNoTracks
  <2>1. viewer' = [viewer EXCEPT !.at = "closed"] /\ viewer.at = "joined" /\ UNCHANGED <<relay, chan, got>>
    BY <1>11 DEF RelayNoTracks
  <2>2. relay.at = "off"
    BY <1>4, <2>1
  <2> QED BY <1>3, <1>8, <2>1, <2>2 DEF ViewerPlaces
<1>12. CASE RelayLeave
  <2>1. viewer' = [viewer EXCEPT !.at = "leaving"] /\ viewer.at = "loop" /\ UNCHANGED <<relay, chan, got>>
    BY <1>12 DEF RelayLeave
  <2> QED BY <1>3, <1>8, <2>1 DEF ViewerPlaces
<1>13. CASE ClientGone
  <2>1. viewer' = [viewer EXCEPT !.client = FALSE] /\ viewer.at # "off" /\ UNCHANGED <<relay, chan, got>>
    BY <1>13 DEF ClientGone
  <2>2. viewer'.at = viewer.at /\ viewer'.pub = viewer.pub
    BY <1>3, <2>1
  <2>3. RelayInv'
    BY <1>4, <1>8, <2>1, <2>2
  <2> QED BY <1>3, <2>1, <2>3
<1>20. CASE Sent \/ SendFailed
  <2>1. \E w \in {"loop", "leaving", "joined"} :
          /\ viewer' = [viewer EXCEPT !.at = w] /\ UNCHANGED <<relay, chan, got>>
          /\ viewer.at = IF w = "joined" THEN "assigning" ELSE "sending"
    BY <1>20 DEF Sent, SendFailed
  <2>2. PICK w \in {"loop", "leaving", "joined"} :
          /\ viewer' = [viewer EXCEPT !.at = w] /\ UNCHANGED <<relay, chan, got>>
          /\ viewer.at = IF w = "joined" THEN "assigning" ELSE "sending"
    BY <2>1
  <2>3. viewer'.at = w /\ viewer'.pub = viewer.pub
    BY <1>3, <2>2
  <2>4. w = "joined" => relay.at = "off"
    BY <1>4, <2>2
  <2>5. RelayInv'
    BY <1>8, <2>2, <2>3, <2>4
  <2> QED BY <1>3, <2>2, <2>5 DEF ViewerPlaces
<1>14. CASE RelayClose
  <2>1. /\ viewer' = [viewer EXCEPT !.at = "closed", !.peer = FALSE] /\ viewer.at = "leaving"
        /\ chan' = <<>> /\ UNCHANGED <<relay, got>>
    BY <1>14 DEF RelayClose
  <2>2. /\ viewer' \in [at : ViewerPlaces, pub : Pubs \cup {0},
                        peer : BOOLEAN, client : BOOLEAN]
        /\ viewer'.pub = viewer.pub /\ viewer'.at = "closed" /\ viewer.pub \in Pubs
    BY <1>3, <1>4, <2>1 DEF ViewerPlaces
  <2>3. RelayInv'
    <3>1. CASE relay.at = "off"
      BY <1>4, <2>1, <2>2, <3>1 DEF RelayInv
    <3>2. CASE relay.at # "off"
      <4>1. PICK s \in Nat : ReadFrom(s)
        BY <1>4, <3>2
      <4>2. ReadFrom(s)'
        BY <1>1, <1>5, <2>1, <2>2, <4>1 DEF ReadFrom
      <4> QED BY <1>1, <1>4, <2>1, <2>2, <3>2, <4>2 DEF RelayInv
    <3> QED BY <3>1, <3>2
  <2> QED BY <1>3, <2>1, <2>2, <2>3
\* The remaining steps are those of a task that has begun.
<1>15. ASSUME relay.at # "off"
       PROVE  /\ viewer.pub \in Pubs /\ t \in Seq(Frames) /\ Len(t) \in Nat /\ Len(t) <= MaxFrames
              /\ viewer.at \in {"loop", "sending", "leaving", "closed"} /\ viewer.at # "off"
  BY <1>4, <1>6, <1>15
<1>16. CASE ReadFrame
  <2>1. relay' = [at |-> "send", pos |-> relay.pos + 1] /\ UNCHANGED <<viewer, chan, got>>
        /\ relay.at = "read" /\ relay.pos < Len(t)
    BY <1>16 DEF ReadFrame, More
  <2>2. relay'.at = "send" /\ relay'.pos = relay.pos + 1
    BY <2>1
  <2>3. relay.pos + 1 \in 0..MaxFrames /\ relay.pos + 1 <= Len(t)
    BY <1>3, <1>15, <2>1
  <2>4. PICK s \in Nat : ReadFrom(s)
    BY <1>4, <2>1
  <2>5. viewer.at \in {"loop", "sending", "leaving"} => relay.pos = s + Len(got) + Len(chan)
    BY <2>1, <2>4 DEF ReadFrom
  <2>6. ReadFrom(s)'
    <3>1. CASE viewer.at \in {"loop", "sending", "leaving"}
      BY <1>1, <1>5, <1>15, <2>1, <2>2, <2>4, <2>5, <3>1 DEF ReadFrom
    <3>2. CASE viewer.at = "closed"
      BY <1>1, <1>5, <1>15, <2>1, <2>2, <2>4, <3>2 DEF ReadFrom
    <3> QED BY <1>15, <2>1, <3>1, <3>2
  <2>7. RelayInv'
    BY <1>1, <1>15, <2>1, <2>2, <2>3, <2>6 DEF RelayInv
  <2> QED BY <1>3, <2>1, <2>3, <2>7
<1>17. CASE RelayDone
  <2>1. relay' = [relay EXCEPT !.at = "done"] /\ UNCHANGED <<viewer, chan, got>> /\ relay.at # "off"
    BY <1>17 DEF RelayDone
  <2>2. relay'.at = "done" /\ relay'.pos = relay.pos
        /\ relay' \in [at : {"off", "read", "send", "done"}, pos : 0..MaxFrames]
    BY <1>3, <2>1
  <2>3. PICK s \in Nat : ReadFrom(s)
    BY <1>4, <2>1
  <2>4. ReadFrom(s)'
    BY <1>1, <1>5, <1>15, <2>1, <2>2, <2>3 DEF ReadFrom
  <2>5. RelayInv'
    BY <1>1, <1>4, <1>15, <2>1, <2>2, <2>4 DEF RelayInv
  <2> QED BY <1>3, <2>1, <2>2, <2>5
<1>18. CASE SendFrame
  <2> DEFINE x == t[relay.pos]
  <2>1. /\ relay' = [relay EXCEPT !.at = "read"] /\ chan' = Append(chan, x) /\ UNCHANGED <<viewer, got>>
        /\ relay.at = "send" /\ viewer.at # "closed" /\ Len(chan) < Room
    BY <1>18 DEF SendFrame
  <2>2. relay'.at = "read" /\ relay'.pos = relay.pos
        /\ relay' \in [at : {"off", "read", "send", "done"}, pos : 0..MaxFrames]
    BY <1>3, <2>1
  <2>3. viewer.at \in {"loop", "sending", "leaving"} /\ relay.pos <= Len(t)
    BY <1>4, <2>1
  <2>4. PICK s \in Nat : ReadFrom(s)
    BY <1>4, <2>1
  <2>5. /\ s \in Starts(viewer.pub)
        /\ s + Len(got) <= Len(t) /\ \A i \in 1..Len(got) : got[i] = t[s + i]
        /\ \A i \in 1..Len(chan) : chan[i] = t[s + Len(got) + i]
        /\ relay.pos = s + Len(got) + Len(chan) + 1
    BY <2>1, <2>3, <2>4 DEF ReadFrom
  <2>6. relay.pos \in 1..Len(t)
    BY <1>3, <1>15, <2>1, <2>3, <2>5
  <2>7. x \in Frames
    BY <1>15, <2>1, <2>6
  <2>8. t[s + Len(got) + (Len(chan) + 1)] = x /\ s + Len(got) + (Len(chan) + 1) = relay.pos
    <3>1. s + Len(got) + (Len(chan) + 1) = relay.pos
      BY <1>3, <2>5
    <3> QED BY <3>1
  <2> HIDE DEF x
  <2>9. /\ chan' \in Seq(Frames) /\ Len(chan') = Len(chan) + 1 /\ chan'[Len(chan) + 1] = x
        /\ \A i \in 1..Len(chan) : chan'[i] = chan[i]
    BY <1>3, <2>1, <2>7
  <2>10. Len(chan') <= Room
    BY <1>3, <2>1, <2>9
  <2>11. s + Len(got) + Len(chan') <= Len(t) /\ relay.pos = s + Len(got) + Len(chan')
    BY <1>3, <2>3, <2>8, <2>9
  <2>12. \A i \in 1..Len(chan') : chan'[i] = t[s + Len(got) + i]
    <3> SUFFICES ASSUME NEW i \in 1..Len(chan') PROVE chan'[i] = t[s + Len(got) + i]
      OBVIOUS
    <3>1. i \in 1..Len(chan) \/ i = Len(chan) + 1
      BY <1>3, <2>9
    <3> QED BY <2>5, <2>8, <2>9, <3>1
  <2>13. s \in Starts(viewer.pub)' /\ viewer.pub \in Pubs
    BY <1>5, <1>15, <2>1, <2>5
  <2>14. ReadFrom(s)'
    BY <1>1, <2>1, <2>2, <2>5, <2>11, <2>12, <2>13 DEF ReadFrom
  <2>15. RelayInv'
    BY <1>1, <1>15, <2>1, <2>2, <2>3, <2>14 DEF RelayInv
  <2> QED BY <1>3, <2>1, <2>2, <2>9, <2>10, <2>15
<1>19. CASE ToClient
  <2> DEFINE x == Head(chan)
  <2>1. /\ got' = Append(got, x) /\ chan' = Tail(chan) /\ UNCHANGED relay
        /\ viewer' = [viewer EXCEPT !.at = "sending"] /\ viewer.at = "loop" /\ chan # <<>>
    BY <1>19 DEF ToClient
  <2>14. /\ viewer'.at = "sending" /\ viewer'.pub = viewer.pub
         /\ viewer' \in [at : ViewerPlaces, pub : Pubs \cup {0}, peer : BOOLEAN, client : BOOLEAN]
    BY <1>3, <2>1 DEF ViewerPlaces
  <2>2. relay.at # "off"
    BY <1>4, <2>1
  <2>3. PICK s \in Nat : ReadFrom(s)
    BY <1>4, <2>2
  <2>4. /\ s \in Starts(viewer.pub)
        /\ \A i \in 1..Len(got) : got[i] = t[s + i]
        /\ s + Len(got) + Len(chan) <= Len(t)
        /\ \A i \in 1..Len(chan) : chan[i] = t[s + Len(got) + i]
        /\ relay.at = "read" => relay.pos = s + Len(got) + Len(chan)
        /\ relay.at = "send" => relay.pos = s + Len(got) + Len(chan) + 1
    BY <2>1, <2>3 DEF ReadFrom
  <2>5. /\ x \in Frames /\ x = chan[1] /\ Len(chan) >= 1
        /\ Tail(chan) \in Seq(Frames) /\ Len(Tail(chan)) = Len(chan) - 1
        /\ \A i \in 1..Len(chan) - 1 : Tail(chan)[i] = chan[i + 1]
    BY <1>3, <2>1
  <2> HIDE DEF x, t
  <2>6. /\ got' \in Seq(Frames) /\ Len(got') = Len(got) + 1 /\ got'[Len(got) + 1] = x
        /\ \A i \in 1..Len(got) : got'[i] = got[i]
    BY <1>3, <2>1, <2>5
  <2>7. x = t[s + (Len(got) + 1)]
    <3>1. 1 \in 1..Len(chan) /\ s + Len(got) + 1 = s + (Len(got) + 1)
      BY <1>3, <2>5
    <3>2. x = t[s + Len(got) + 1]
      BY <2>4, <2>5, <3>1
    <3> QED BY <3>1, <3>2
  <2>8. \A i \in 1..Len(got') : got'[i] = t[s + i]
    <3> SUFFICES ASSUME NEW i \in 1..Len(got') PROVE got'[i] = t[s + i]
      OBVIOUS
    <3>1. i \in 1..Len(got) \/ i = Len(got) + 1
      BY <1>3, <2>6
    <3> QED BY <2>4, <2>6, <2>7, <3>1
  <2>9. Len(chan') \in Nat /\ Len(got') \in Nat /\ s + Len(got') + Len(chan') = s + Len(got) + Len(chan)
        /\ Len(chan') <= Room /\ s + Len(got') <= Len(t)
    BY <1>3, <1>15, <2>1, <2>2, <2>4, <2>5, <2>6 DEF t
  <2>10. \A i \in 1..Len(chan') : chan'[i] = t[s + Len(got') + i]
    <3> SUFFICES ASSUME NEW i \in 1..Len(chan') PROVE chan'[i] = t[s + Len(got') + i]
      OBVIOUS
    <3>0. Len(chan') = Len(chan) - 1
      BY <2>1, <2>5
    <3>1. i \in 1..Len(chan) - 1 /\ i + 1 \in 1..Len(chan) /\ s + Len(got') + i = s + Len(got) + (i + 1)
      BY <1>3, <2>6, <3>0
    <3>2. Tail(chan)[i] = chan[i + 1]
      BY <2>5, <3>1
    <3>3. chan'[i] = chan[i + 1]
      BY <2>1, <3>2, Zenon
    <3> QED BY <2>4, <3>1, <3>3
  <2>11. s \in Starts(viewer.pub)' /\ viewer.pub \in Pubs
    BY <1>5, <1>15, <2>1, <2>2, <2>4
  <2>12. ReadFrom(s)'
    BY <1>1, <2>1, <2>4, <2>8, <2>9, <2>10, <2>11, <2>14 DEF ReadFrom, t
  <2>13. RelayInv'
    BY <1>1, <1>4, <1>15, <2>1, <2>2, <2>12, <2>14 DEF RelayInv, t
  <2> QED BY <1>3, <2>1, <2>5, <2>6, <2>9, <2>13, <2>14
<1> QED BY <1>9, <1>10, <1>11, <1>12, <1>13, <1>14, <1>16, <1>17, <1>18, <1>19, <1>20
        DEF Watching, Relaying, RelayTask

LEMMA WsStep == ASSUME SInv, [WsIngest \/ Recording \/ Watching]_ws PROVE SInv'
<1>1. CASE UNCHANGED ws
  <2>1. WsShape' /\ Session' /\ BusInStep'
    BY <1>1 DEF ws, SInv, WsShape, Session, BusInStep, Announced
  <2>2. RelayInv'
    BY <1>1 DEF ws, SInv, RelayInv, ReadFrom, Starts
  <2>3. ASSUME NEW p \in Pubs PROVE Marked(track[p])' /\ RecordingInv(p)'
    BY <1>1 DEF ws, SInv, Marked, RecordingInv, Starts
  <2> QED BY <2>1, <2>2, <2>3 DEF SInv
<1> QED BY <1>1, IngestQuietSteps, IngestFrameSteps, RecordEventSteps, RecordTaskSteps, RelaySteps
        DEF WsIngest, Recording

-----------------------------------------------------------------------------
(* The theorems.  In every step of the composition one part moves and the  *)
(* others stand still.                                                     *)

\* A drain of an earlier run that is still at work when its broadcast is
\* published again never makes the DASH server number a segment twice, serve a
\* segment of a run that has not begun, or skip one (DashServer's DashInv).
THEOREM SegmentsInOrder == PlaybackSpec => []DashInv
<1>1. PlaybackInit => DInv
  BY InitDInv DEF PlaybackInit
<1>2. DInv /\ [PlaybackNext]_playback => DInv'
  <2> SUFFICES ASSUME DInv, [PlaybackNext]_playback PROVE DInv'
    OBVIOUS
  <2>1. [DashNext]_dash
    BY DEF PlaybackNext, playback
  <2> QED BY <2>1, DashStep
<1> QED BY <1>1, <1>2, DInvImplies, PTL DEF PlaybackSpec

\* Whatever the order of offers and published messages, a listed session knows
\* what the caches hold and no keyframe goes out that a decoder cannot use
\* (WhepEgress's WhepInv), for any number of viewers.  Excepted is a session
\* that missed a message published between the seed and the listing (raced).
THEOREM SessionsInStep == PlaybackSpec => []WhepInv
<1>1. PlaybackInit => WInv
  BY InitWInv DEF PlaybackInit
<1>2. WInv /\ [PlaybackNext]_playback => WInv'
  <2> SUFFICES ASSUME WInv, [PlaybackNext]_playback PROVE WInv'
    OBVIOUS
  <2>1. [WhepNext]_whep
    BY DEF PlaybackNext, playback
  <2> QED BY <2>1, WhepStep
<1> QED BY <1>1, <1>2, WInvImplies, PTL DEF PlaybackSpec

\* A WebSocket viewer and a recording start with an init segment, and what is
\* live once the recorder has caught up with the bus is recorded, or its
\* recorder had asked before the tracks were created (WsSessions' WsInv), for
\* any number of publications and any room in the channels.
THEOREM InitSegmentsFirst == PlaybackSpec => []WsInv
<1>1. PlaybackInit => SInv
  BY InitSInv DEF PlaybackInit
<1>2. SInv /\ [PlaybackNext]_playback => SInv'
  <2> SUFFICES ASSUME SInv, [PlaybackNext]_playback PROVE SInv'
    OBVIOUS
  <2>1. [WsIngest \/ Recording \/ Watching]_ws
    BY DEF PlaybackNext, playback
  <2> QED BY <2>1, WsStep
<1> QED BY <1>1, <1>2, SInvImplies, PTL DEF PlaybackSpec
=============================================================================
