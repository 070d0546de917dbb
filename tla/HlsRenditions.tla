--------------------------- MODULE HlsRenditions ----------------------------
(***************************************************************************)
(* Two more playlists of crates/lvqr-hls: the captions rendition           *)
(* (subtitles.rs, fed by crates/lvqr-cli/src/captions.rs), and the delta   *)
(* updates and rendition reports that a media playlist gives to players    *)
(* which have seen it before (manifest.rs, server.rs).                     *)
(*                                                                         *)
(* HlsPlaylist models how a playlist is built and cached; here a segment   *)
(* is its number and its length in ticks, a cue its length in              *)
(* milliseconds.                                                           *)
(***************************************************************************)
EXTENDS Integers, Sequences, SequencesExt

CONSTANTS
  Timescale, TargetSecs,   \* of the playlist
  Lengths,                 \* segment lengths, in ticks
  MaxListed,               \* segments a playlist keeps
  MaxClosed,               \* bound: segments closed
  MaxParts,                \* bound: parts of the open segment
  CueMillis,               \* cue lengths, 0 included
  MinTarget,               \* DEFAULT_MIN_TARGET_DURATION_SECS
  MaxCues,                 \* cues the window keeps
  MaxPushed,               \* bound: cues pushed
  CaptionRuns              \* publications of the captions track

ASSUME RenditionsAssumption ==
  /\ {Timescale, TargetSecs, MaxListed, MaxClosed, MaxParts, MinTarget, MaxCues} \subseteq Nat \ {0}
  /\ Lengths \subseteq Nat \ {0} /\ CueMillis \subseteq Nat /\ MaxPushed \in Nat

-----------------------------------------------------------------------------
(* Captions.                                                               *)

VARIABLES
  subtitles,   \* SubtitlesState
  captioner,   \* publication -> its drain: none, on, done
  told         \* history: the cues accepted, oldest first

captions == <<subtitles, captioner, told>>

NewSubtitles == [window |-> <<>>, base |-> 0, next |-> 0, target |-> MinTarget, ended |-> FALSE]

CaptionsInit ==
  /\ subtitles = NewSubtitles
  /\ captioner = [r \in CaptionRuns |-> "none"]
  /\ told = <<>>

\* install: the callback subscribes, ensures the rendition and spawns.
SpawnCaptions(r) ==
  /\ captioner[r] = "none" /\ captioner' = [captioner EXCEPT ![r] = "on"]
  /\ UNCHANGED <<subtitles, told>>

CeilDiv(a, b) == (a + b - 1) \div b

\* CaptionCue::duration_secs_ceil: an empty cue lasts a second.
duration_secs_ceil(ms) == IF ms = 0 THEN 1 ELSE CeilDiv(ms, 1000)

\* mutant: the base stays
PushCueBase(s, ms) ==
  [s EXCEPT !.window = IF Len(@) = MaxCues THEN Append(Tail(@), [seq |-> s.next, ms |-> ms])
                       ELSE Append(@, [seq |-> s.next, ms |-> ms]),
            !.next = @ + 1,
            !.target = IF duration_secs_ceil(ms) > @ THEN duration_secs_ceil(ms) ELSE @]
\* mutant: the longest is what the window shows
PushCueShrinks(s, ms) ==
  [s EXCEPT !.window = IF Len(@) = MaxCues THEN Append(Tail(@), [seq |-> s.next, ms |-> ms])
                       ELSE Append(@, [seq |-> s.next, ms |-> ms]),
            !.base = IF Len(s.window) = MaxCues THEN @ + 1 ELSE @,
            !.next = @ + 1,
            !.target = IF ms \div 1000 > @ THEN ms \div 1000 ELSE @]
PushCue(s, ms) ==
  [s EXCEPT !.window = IF Len(@) = MaxCues THEN Append(Tail(@), [seq |-> s.next, ms |-> ms])
                       ELSE Append(@, [seq |-> s.next, ms |-> ms]),
            !.base = IF Len(s.window) = MaxCues THEN @ + 1 ELSE @,
            !.next = @ + 1,
            !.target = IF duration_secs_ceil(ms) > @ THEN duration_secs_ceil(ms) ELSE @]

\* mutant: a finished playlist takes cues
DrainCueLate(r) ==
  /\ captioner[r] = "on" /\ Len(told) < MaxPushed
  /\ \E ms \in CueMillis : subtitles' = PushCue(subtitles, ms)
  /\ UNCHANGED <<captioner, told>>
\* drain, one cue; what is not text is skipped, and after the end a cue is
\* ignored.
DrainCue(r) ==
  /\ captioner[r] = "on" /\ ~subtitles.ended /\ Len(told) < MaxPushed
  /\ \E ms \in CueMillis : subtitles' = PushCue(subtitles, ms) /\ told' = Append(told, ms)
  /\ UNCHANGED captioner

\* drain, the producers are gone: finalize, whoever else still feeds it.
CaptionsClosed(r) ==
  /\ captioner[r] = "on"
  /\ captioner' = [captioner EXCEPT ![r] = "done"]
  /\ subtitles' = [subtitles EXCEPT !.ended = TRUE]
  /\ UNCHANGED told

\* finalize_broadcast, when the broadcast stops.
FinalizeCaptions ==
  /\ subtitles' = [subtitles EXCEPT !.ended = TRUE]
  /\ UNCHANGED <<captioner, told>>

CaptionsNext ==
  \/ \E r \in CaptionRuns : SpawnCaptions(r) \/ DrainCue(r) \/ CaptionsClosed(r)
  \/ FinalizeCaptions

\* render_playlist and render_segment.
CaptionsPlaylist ==
  [media |-> subtitles.base, target |-> subtitles.target, end |-> subtitles.ended,
   entries |-> [i \in 1..Len(subtitles.window) |->
                  [uri |-> subtitles.window[i].seq, inf |-> duration_secs_ceil(subtitles.window[i].ms)]]]
VttSegment(seq) == SelectSeq(subtitles.window, LAMBDA c : c.seq = seq)

\* format_webvtt_timestamp, as hours, minutes, seconds and milliseconds; the
\* body of a cue shows it from zero to this.
Webvtt(ms) ==
  LET t == ms \div 1000 IN
    IF t \div 3600 >= 100 THEN <<99, 59, 59, 999>>
    ELSE <<t \div 3600, (t % 3600) \div 60, t % 60, ms % 1000>>

\* Through evictions, empty and overlong cues and overlapping publications the
\* playlist counts its entries as it numbers them, no entry lasts longer than
\* the target, and a number is served as the one cue that was given it.
CaptionsSound ==
  LET p == CaptionsPlaylist IN
    /\ Len(p.entries) = (IF Len(told) < MaxCues THEN Len(told) ELSE MaxCues)
    /\ p.media = Len(told) - Len(p.entries)
    /\ \A i \in 1..Len(p.entries) :
         /\ p.entries[i].uri = p.media + i - 1
         /\ p.entries[i].inf \in 1..p.target
         /\ VttSegment(p.entries[i].uri) = <<[seq |-> p.media + i - 1, ms |-> told[p.media + i]]>>
         /\ LET w == Webvtt(told[p.media + i]) IN
              ((w[1] * 60 + w[2]) * 60 + w[3]) * 1000 + w[4] <= 1000 * p.entries[i].inf

-----------------------------------------------------------------------------
(* Delta updates and rendition reports.                                    *)

VARIABLES
  reel,      \* the playlist: segments listed, parts of the last and of the open one, is it ended
  player,    \* a player's copy of the segments, its age (-1: none), a report it was given
  closed     \* segments closed so far

delta == <<reel, player, closed>>

NoReport == [msn |-> -1, part |-> -1]
NoPlayer == [has |-> <<>>, behind |-> -1, fresh |-> FALSE, report |-> NoReport]

DeltaInit ==
  /\ reel = [segments |-> <<>>, last |-> 0, open |-> 0, ended |-> FALSE]
  /\ player = NoPlayer /\ closed = 0

\* A part joins the open segment.
PushPart ==
  /\ ~reel.ended /\ reel.open < MaxParts
  /\ reel' = [reel EXCEPT !.open = @ + 1]
  /\ UNCHANGED <<player, closed>>

Segment(len) == [seq |-> closed, len |-> len]

\* The open segment is closed, and the oldest one goes when the window is full.
\* A player's copy may have been made just before the close, so the segment
\* that was open then adds nothing to its age.
CloseSegment ==
  /\ reel.open > 0 /\ closed < MaxClosed
  /\ \E len \in Lengths, end \in BOOLEAN :
       /\ reel' = [segments |-> LET s == Append(reel.segments, Segment(len)) IN
                                  IF Len(s) > MaxListed THEN Tail(s) ELSE s,
                   last |-> reel.open, open |-> IF end THEN 0 ELSE 1, ended |-> end]
       /\ player' = [player EXCEPT !.fresh = FALSE,
                                   !.behind = IF @ = -1 \/ player.fresh THEN @ ELSE @ + len]
  /\ closed' = closed + 1

SumLen(segments) == FoldLeft(LAMBDA x, s : x + s.len, 0, segments)
SkipUntil == 6 * TargetSecs * Timescale
Target == TargetSecs * Timescale

\* How many leading segments leave `keep` behind them, and every one before.
Skippable(segments, Keep(_)) ==
  LET bad == {i \in 1..Len(segments) : ~Keep(i)}
  IN IF bad = {} THEN Len(segments) ELSE (CHOOSE i \in bad : \A j \in bad : i <= j) - 1

\* mutant: measured from where a segment begins
DeltaSkipCountEarly(segments) ==
  IF SumLen(segments) < 6 * Target THEN 0
  ELSE Skippable(segments, LAMBDA i :
         LET remaining == SumLen(SubSeq(segments, i, Len(segments))) IN
           remaining > SkipUntil /\ remaining >= 4 * Target)
\* delta_skip_count.
delta_skip_count(segments) ==
  IF SumLen(segments) < 6 * Target THEN 0
  ELSE Skippable(segments, LAMBDA i :
         LET remaining == SumLen(SubSeq(segments, i + 1, Len(segments))) IN
           remaining > SkipUntil /\ remaining >= 4 * Target)

\* mutant: the longest segment is rounded down
EffectiveTargetFloor(segments) ==
  FoldLeft(LAMBDA x, s : IF s.len \div Timescale > x THEN s.len \div Timescale ELSE x, TargetSecs, segments)
EffectiveTarget(segments) ==
  FoldLeft(LAMBDA x, s : IF CeilDiv(s.len, Timescale) > x THEN CeilDiv(s.len, Timescale) ELSE x,
           TargetSecs, segments)

\* render_with_skip: the media sequence stays that of the first segment.
RenderWithSkip(skip) ==
  [media |-> IF reel.segments = <<>> THEN -1 ELSE reel.segments[1].seq, skipped |-> skip,
   target |-> EffectiveTarget(reel.segments),
   listed |-> SubSeq(reel.segments, skip + 1, Len(reel.segments)), end |-> reel.ended]

\* The player fetches the whole playlist.  One player follows the segments,
\* another the reports.
FetchFull ==
  /\ player.report = NoReport
  /\ player' = [player EXCEPT !.has = reel.segments, !.behind = 0, !.fresh = TRUE]
  /\ UNCHANGED <<reel, closed>>

\* What the player makes of a delta update: the skipped numbers from its copy.
Merge(p) ==
  SelectSeq(player.has, LAMBDA s : s.seq >= p.media /\ s.seq < p.media + p.skipped) \o p.listed
FetchDelta ==
  /\ player.behind \in 0..SkipUntil
  /\ player' = [player EXCEPT !.has = Merge(RenderWithSkip(delta_skip_count(reel.segments))),
                             !.behind = 0, !.fresh = TRUE]
  /\ UNCHANGED <<reel, closed>>

OpenSeq == IF reel.segments = <<>> THEN 0 ELSE reel.segments[Len(reel.segments)].seq + 1

\* mutant: the number of parts, not the index of the last
CurrentPositionCount(r) ==
  IF r.open > 0 THEN [msn |-> OpenSeq, part |-> r.open]
  ELSE IF r.segments = <<>> THEN NoReport
  ELSE [msn |-> OpenSeq - 1, part |-> r.last - 1]
current_rendition_position(r) ==
  IF r.open > 0 THEN [msn |-> OpenSeq, part |-> r.open - 1]
  ELSE IF r.segments = <<>> THEN NoReport
  ELSE [msn |-> OpenSeq - 1, part |-> r.last - 1]

\* build_sibling_reports: read before the sibling's playlist is waited for, so
\* the report is of an earlier moment.
Reported ==
  /\ player.behind = -1
  /\ player' = [player EXCEPT !.report = current_rendition_position(reel)]
  /\ UNCHANGED <<reel, closed>>

DeltaNext == PushPart \/ CloseSegment \/ FetchFull \/ FetchDelta \/ Reported

\* A request for this position is answered without waiting (render_playlist).
Answerable(p) ==
  \/ \E s \in Range(reel.segments) : s.seq >= p.msn
  \/ OpenSeq = p.msn /\ reel.open > p.part

\* A delta update is complete for every player whose copy is not older than
\* CAN-SKIP-UNTIL: with its copy it has the whole window.
DeltaExact ==
  player.behind \in 0..SkipUntil => Merge(RenderWithSkip(delta_skip_count(reel.segments))) = reel.segments

\* What a delta update lists is never less than four target durations, and no
\* listed segment is longer than the target that is declared.
DeltaBounded ==
  LET p == RenderWithSkip(delta_skip_count(reel.segments)) IN
    /\ p.skipped > 0 => SumLen(p.listed) >= 4 * Target
    /\ \A s \in Range(p.listed) : s.len <= p.target * Timescale

\* A rendition report never sends a player to wait for what is there.
ReportAnswerable == player.report # NoReport => Answerable(player.report)

DeltaInv == DeltaExact /\ DeltaBounded /\ ReportAnswerable
=============================================================================
