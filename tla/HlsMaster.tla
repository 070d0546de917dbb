----------------------------- MODULE HlsMaster ------------------------------
(***************************************************************************)
(* The map of broadcasts of MultiHlsServer (crates/lvqr-hls/src/server.rs):*)
(* the renditions each broadcast gets as its drains appear, the router     *)
(* that finds them by path, and the master playlist (master.rs), which     *)
(* reads the map one lock at a time.                                       *)
(*                                                                         *)
(* A broadcast's name is the sequence of its path segments.  A file of a   *)
(* rendition is its prefix and its kind; the path of a request ends in     *)
(* one.                                                                    *)
(***************************************************************************)
EXTENDS Naturals, Sequences, SequencesExt, FiniteSets

CONSTANTS
  HlsNames,        \* names under which something is published
  Whole,           \* bound: those with more than video, and with every codec
  Ladder,          \* the configured rungs, as set_ladder is given them
  SourceOverride,  \* the configured bandwidth of the source, 0 for none
  Codecs           \* what an init segment may be recognised as, besides nothing

ASSUME HlsAssumption ==
  /\ \A n \in HlsNames : n \in Seq(STRING) /\ n # <<>>
  /\ \A i \in 1..Len(Ladder) : Ladder[i].bandwidth \in Nat
  /\ SourceOverride \in Nat /\ Whole \subseteq HlsNames

VARIABLES
  shelf,    \* MultiHlsState.broadcasts: name -> entry
  master    \* a request for a master playlist: where it is and what it has read

hls == <<shelf, master>>

NoEntry == [video |-> "none", audio |-> "none", subtitles |-> FALSE]
NoMaster == [at |-> "idle", of |-> <<>>, audio |-> FALSE, subs |-> FALSE, codecs |-> <<>>,
             left |-> <<>>, rungs |-> <<>>, before |-> {}]

HlsInit == shelf = [n \in HlsNames |-> NoEntry] /\ master = NoMaster

-----------------------------------------------------------------------------
(* What the drains leave in the map.  A rendition is "none", "empty" until *)
(* it has an init segment, "opaque" when that names no codec, or its codec.*)

\* What a rendition calls its files, and the program date its clock starts at.
\* mutant: the audio playlist keeps the prefix of the video one
RenditionConfigPlain(rendition) == [map |-> <<rendition, "init">>, prefix |-> "", dated |-> TRUE]
RenditionConfig(rendition) ==
  [map |-> IF rendition = "audio" THEN <<"audio-", "init">> ELSE <<"", "init">>,
   prefix |-> IF rendition = "audio" THEN "audio-" ELSE "", dated |-> TRUE]

Entry(n) == IF shelf[n].video = "none" THEN [NoEntry EXCEPT !.video = "empty"] ELSE shelf[n]

\* mutant: the entry is replaced
EnsureVideoAnew(n) ==
  /\ shelf' = [shelf EXCEPT ![n] = [NoEntry EXCEPT !.video = "empty"]]
  /\ UNCHANGED master
ensure_video(n) ==
  /\ shelf[n].video = "none"
  /\ shelf' = [shelf EXCEPT ![n] = Entry(n)]
  /\ UNCHANGED master

\* The entry is made with its video rendition also when audio comes first.
ensure_audio(n) ==
  /\ n \in Whole /\ shelf[n].audio = "none"
  /\ shelf' = [shelf EXCEPT ![n] = [Entry(n) EXCEPT !.audio = "empty"]]
  /\ UNCHANGED master

ensure_subtitles(n) ==
  /\ n \in Whole /\ ~shelf[n].subtitles
  /\ shelf' = [shelf EXCEPT ![n] = [Entry(n) EXCEPT !.subtitles = TRUE]]
  /\ UNCHANGED master

\* push_init, what the master playlist sees of it.
push_init(n, r) ==
  /\ shelf[n][r] # "none"
  /\ \E c \in {"opaque"} \cup (IF n \in Whole THEN Codecs ELSE {}) : shelf' = [shelf EXCEPT ![n][r] = c]
  /\ UNCHANGED master

-----------------------------------------------------------------------------
(* The router.                                                             *)

\* mutant: the path is split at its first separator
SplitPathFirst(path) == [broadcast |-> SubSeq(path, 1, 1), tail |-> path[Len(path)]]
\* split_broadcast_path: the file is what follows the last separator.
split_broadcast_path(path) == [broadcast |-> Front(path), tail |-> path[Len(path)]]

HasVideo(n) == n \in HlsNames /\ shelf[n].video # "none"
HasAudio(n) == n \in HlsNames /\ shelf[n].audio # "none"
HasSubtitles(n) == n \in HlsNames /\ shelf[n].subtitles

\* strip_suffix("/captions")
UnderCaptions(n) == Len(n) > 1 /\ Last(n) = "captions"
handle_captions(n, tail) ==
  IF HasSubtitles(n) /\ tail = <<"", "playlist">> THEN <<"subtitles", n>> ELSE <<404>>

\* handle_multi_get: which server a path is answered by.  A name that has no
\* entry is redirected when a peer is known to own it.
Get(path, owner) ==
  LET p == split_broadcast_path(path)
      n == p.broadcast
  IN IF ~HasVideo(n) /\ owner THEN <<302>>
     ELSE IF p.tail = <<"", "master">> THEN (IF HasVideo(n) THEN <<"master", n>> ELSE <<404>>)
     ELSE IF UnderCaptions(n) THEN handle_captions(Front(n), p.tail)
     ELSE IF p.tail[1] \in {"audio", "audio-"}
            THEN (IF HasAudio(n) THEN <<"audio", n>> ELSE <<404>>)
            ELSE (IF HasVideo(n) THEN <<"video", n>> ELSE <<404>>)

-----------------------------------------------------------------------------
(* The master playlist.                                                    *)

Rungs == {Ladder[i].name : i \in 1..Len(Ladder)}
Meta(rung) == Ladder[SelectInSeq(Ladder, LAMBDA m : m.name = rung)]

\* variant_siblings: the names one segment below the source, in their order.
variant_siblings(n) ==
  {k[Len(k)] : k \in {x \in HlsNames : HasVideo(x) /\ Len(x) = Len(n) + 1 /\ SubSeq(x, 1, Len(n)) = n}}

\* Renditions that have had an init segment.
Playing(names, n) == {k \in names : shelf[Append(n, k)].video # "empty"}

\* The first locks: the video rendition must be there.
AskMaster(n) ==
  /\ master.at = "idle" /\ HasVideo(n)
  /\ master' = [NoMaster EXCEPT !.at = "subs", !.of = n, !.audio = HasAudio(n),
                                !.before = Playing(variant_siblings(n) \cap Rungs, n)]
  /\ UNCHANGED shelf

ReadSubtitles ==
  /\ master.at = "subs"
  /\ master' = [master EXCEPT !.at = "codec", !.subs = HasSubtitles(master.of)]
  /\ UNCHANGED shelf

Codec(c, fallback) == IF c \in {"empty", "opaque"} THEN fallback ELSE c

\* The codecs, each under the lock of its rendition: the pair may be of two
\* moments, as the two renditions are.
ReadVideoCodec ==
  /\ master.at = "codec"
  /\ master' = [master EXCEPT !.at = IF master.audio THEN "audio" ELSE "siblings",
                              !.codecs = <<Codec(shelf[master.of].video, "avc1")>>]
  /\ UNCHANGED shelf
ReadAudioCodec ==
  /\ master.at = "audio"
  /\ master' = [master EXCEPT !.at = "siblings",
                              !.codecs = Append(@, Codec(shelf[master.of].audio, "mp4a"))]
  /\ UNCHANGED shelf

\* The siblings that the ladder knows; then each is looked up again.
ReadSiblings ==
  /\ master.at = "siblings"
  /\ master' = [master EXCEPT !.at = "rungs", !.left = SetToSeq(variant_siblings(master.of) \cap Rungs)]
  /\ UNCHANGED shelf

VariantStream(uri, bandwidth, audio) ==
  [uri |-> uri, bandwidth |-> bandwidth, audio |-> audio, subs |-> master.subs]

\* A rung carries the subtitles of the source and never an audio group.
ReadRung ==
  /\ master.at = "rungs" /\ master.left # <<>>
  /\ LET rung == Head(master.left) IN
       master' = [master EXCEPT !.left = Tail(@),
         !.rungs = IF HasVideo(Append(master.of, rung))
                     THEN Append(@, VariantStream([down |-> <<rung>>, tail |-> <<"", "playlist">>],
                                                  Meta(rung).bandwidth, FALSE))
                     ELSE @]
  /\ UNCHANGED shelf

\* mutant: the configured rungs do not count
SourceBandwidthFixed(override) == IF override = 0 THEN 1 ELSE override
\* A fifth above the best rung, when nothing is configured.
SourceBandwidth(override) ==
  LET top == FoldLeft(LAMBDA x, m : IF m.bandwidth > x THEN m.bandwidth ELSE x, 0, Ladder) IN
    IF override # 0 THEN override ELSE IF Ladder = <<>> THEN 2500 ELSE top + top \div 5

\* mutant: the rungs keep the order of their names
SortedNot(variants) == variants
Sorted(variants) == SortSeq(variants, LAMBDA v, w : v.bandwidth > w.bandwidth)

MediaRendition(group, uri) == [group |-> group, uri |-> uri]

\* What is rendered: the groups, the source, the rungs by falling bandwidth.
MasterPlaylist ==
  [renditions |->
     (IF master.audio
        THEN {MediaRendition("audio", [down |-> <<>>, tail |-> <<"audio", "playlist">>])} ELSE {})
     \cup (IF master.subs
        THEN {MediaRendition("subs", [down |-> <<"captions">>, tail |-> <<"", "playlist">>])} ELSE {}),
   variants |->
     <<VariantStream([down |-> <<>>, tail |-> <<"", "playlist">>],
                     SourceBandwidth(SourceOverride), master.audio)>> \o Sorted(master.rungs)]

AnswerMaster ==
  /\ master.at = "rungs" /\ master.left = <<>>
  /\ master' = NoMaster
  /\ UNCHANGED shelf

HlsNext ==
  \/ \E n \in HlsNames :
       \/ ensure_video(n) \/ ensure_audio(n) \/ ensure_subtitles(n) \/ AskMaster(n)
       \/ \E r \in {"video", "audio"} : push_init(n, r)
  \/ ReadSubtitles \/ ReadVideoCodec \/ ReadAudioCodec \/ ReadSiblings \/ ReadRung \/ AnswerMaster

-----------------------------------------------------------------------------
(* Properties.                                                             *)

\* A URI of the master playlist, as a player resolves it.
Resolve(uri) == master.of \o uri.down \o <<uri.tail>>
Rendered == master.at = "rungs" /\ master.left = <<>>

\* Every URI a master playlist lists is routed to the rendition it stands for,
\* whatever was added while it was put together; and every group that a
\* variant names is there.  A stream whose name ends in "captions" is excepted:
\* the router gives its files to the captions of the name before (server.rs,
\* handle_multi_get), and its playlists are out of reach.
MasterServed ==
  Rendered =>
    /\ \A v \in Range(MasterPlaylist.variants) :
         /\ LET n == master.of \o v.uri.down IN
              Get(Resolve(v.uri), FALSE) = <<"video", n>> \/ UnderCaptions(n)
         /\ v.audio => \E m \in MasterPlaylist.renditions : m.group = "audio"
         /\ v.subs => \E m \in MasterPlaylist.renditions : m.group = "subs"
    /\ \A m \in MasterPlaylist.renditions :
         \/ Get(Resolve(m.uri), FALSE) = <<IF m.group = "audio" THEN "audio" ELSE "subtitles", master.of>>
         \/ m.group = "audio" /\ UnderCaptions(master.of)
    /\ Len(master.codecs) = IF master.audio THEN 2 ELSE 1

\* A rung that was playing when the request came is listed, once, after the
\* source and in the order of bandwidth, and without an override the source
\* comes out as the best.  Nothing is said of a rung without a frame: the
\* comments of set_ladder and handle_master_playlist leave it out, but an entry
\* has its video rendition from the start, so the code lists it.
RungsInOrder ==
  Rendered =>
    LET v == MasterPlaylist.variants IN
      /\ \A r \in master.before : \E i \in 2..Len(v) : v[i].uri.down = <<r>>
      /\ \A i, j \in 2..Len(v) : i < j => v[i].bandwidth >= v[j].bandwidth /\ v[i].uri # v[j].uri
      /\ SourceOverride = 0 => \A i \in 2..Len(v) : v[1].bandwidth > v[i].bandwidth

\* The files of a rendition reach that rendition by the names its playlist
\* gives them; for a name that ends in "captions" they reach no video or audio
\* at all.
FilesReach ==
  \A n \in HlsNames, r \in {"video", "audio"} :
    shelf[n][r] # "none" =>
      \A file \in {RenditionConfig(r).map, <<RenditionConfig(r).prefix, "part">>, <<RenditionConfig(r).prefix, "seg">>} :
        LET answer == Get(Append(n, file), FALSE)
        IN IF UnderCaptions(n) THEN answer \in {<<404>>, <<"subtitles", Front(n)>>} ELSE answer = <<r, n>>

MasterInv == MasterServed /\ RungsInOrder /\ FilesReach
=============================================================================
